---- MODULE Spec2Model ----
(***************************************************************************)
(* Model of the invoice-reconciliation engine of inventory-hub: the import *)
(* handler (sync/import/[folderId]/route.ts), the fee-edit handler         *)
(* (import-logs/[id] PATCH), the item handlers (products POST, PATCH,      *)
(* DELETE, delete-by-auction) and the calculator of base-parser.ts.        *)
(*                                                                         *)
(* Money is in whole yen. The tax rate is in percent (0.1 is 10), so a     *)
(* tax-included amount x * (1 + taxRate) is kept exactly, in hundredths of *)
(* a yen, as x * (100 + rate): "scaled" below always means hundredths.     *)
(* An optional (nullable, undefined-able) value is a sequence of length 0  *)
(* or 1: None is null/undefined, Some(v) is v.                             *)
(*                                                                         *)
(* The program computes in IEEE-754 doubles. 1 + 0.1 and 1 + 0.08 are not  *)
(* representable, so a product x * (1 + taxRate) whose exact value is a    *)
(* whole number of yen can come out one unit in the last place above it    *)
(* (100 * (1 + 0.1) is 110.00000000000001). Such a double is kept as the   *)
(* exact scaled value plus one hundredth: its floor and its rounding are   *)
(* those of the exact value, its ceiling is one yen more. InexactProducts  *)
(* and InexactTotals list the products and the sums for which this         *)
(* happens among the amounts and rates this model draws (prices and        *)
(* subtotals of the listings and of FnItems, fees of 0 and 5, rates of 0,  *)
(* 8 and 10 percent); no product or sum of these amounts comes out below   *)
(* its exact value at a whole or a half yen.                               *)
(***************************************************************************)
EXTENDS Integers, Sequences, FiniteSets, TLC

None == << >>
Some(v) == << v >>
IsSome(o) == Len(o) = 1
Val(o) == o[1]

Abs(x) == IF x < 0 THEN -x ELSE x

(***************************************************************************)
(* The calculator (base-parser.ts)                                         *)
(***************************************************************************)

\* Math.floor, Math.ceil, Math.round of a scaled value, in yen.
\* Math.round rounds a half towards +Infinity.
MathFloor(v) == v \div 100
MathCeil(v) == -((-v) \div 100)
MathRound(v) == (v + 50) \div 100

applyRounding(v, mode) ==
  CASE mode = "floor" -> MathFloor(v)
    [] mode = "ceil" -> MathCeil(v)
    [] mode = "round" -> MathRound(v)
    [] OTHER -> MathFloor(v)

\* x * (1 + taxRate) when the tax type is excluded, x otherwise; scaled.
WithTax(x, taxType, rate) ==
  IF taxType = "excluded" THEN x * (100 + rate) ELSE x * 100

\* <<rate, x>> for which the double x * (1 + taxRate) is above a whole
\* number of yen that the exact product equals
InexactProducts == { <<10, 50>>, <<10, 100>> }

\* itemPrice * (1 + taxRate) as the double the program gets; scaled
Times(x, rate) ==
  x * (100 + rate) + (IF <<rate, x>> \in InexactProducts THEN 1 ELSE 0)

\* The same, rounded at once: what per_item and subtotal do to a component.
\* An included component is left as it is.
WithTaxRounded(x, taxType, rate, mode) ==
  IF taxType = "excluded" THEN applyRounding(Times(x, rate), mode) ELSE x

\* <<rate, the four excluded amounts, the four included amounts>> (price
\* subtotal, commission subtotal, participation fee, shipping fee; 0 where
\* the part has the other tax type) for which the double
\* productSubtotal + commissionSubtotal + participationFeeWithTax +
\* shippingFeeWithTax of total mode is above a whole number of yen that the
\* exact sum equals
InexactTotals ==
  { <<10, 50, 0, 0, 0, 0, 0, 0, 0>>,
    <<10, 50, 0, 0, 0, 0, 0, 0, 5>>,
    <<10, 50, 0, 0, 0, 0, 0, 5, 0>>,
    <<10, 100, 0, 0, 0, 0, 0, 0, 0>>,
    <<10, 100, 0, 0, 0, 0, 0, 0, 5>>,
    <<10, 100, 0, 0, 0, 0, 0, 5, 0>>,
    <<10, 100, 0, 0, 0, 0, 0, 5, 5>>,
    <<10, 100, 0, 5, 5, 0, 0, 0, 0>>,
    <<10, 100, 55, 0, 5, 0, 0, 0, 0>>,
    <<10, 100, 55, 0, 5, 0, 0, 5, 0>>,
    <<10, 100, 55, 5, 0, 0, 0, 0, 0>>,
    <<10, 100, 55, 5, 0, 0, 0, 0, 5>> }

Excluded(x, taxType) == IF taxType = "excluded" THEN x ELSE 0
Included(x, taxType) == IF taxType = "excluded" THEN 0 ELSE x

\* The grand sum of total mode as the double the program gets; scaled
TotalSum(ps, pt, cs, ct, pf, pft, sf, sft, rate) ==
    WithTax(ps, pt, rate) + WithTax(cs, ct, rate)
  + WithTax(pf, pft, rate) + WithTax(sf, sft, rate)
  + (IF << rate, Excluded(ps, pt), Excluded(cs, ct), Excluded(pf, pft), Excluded(sf, sft),
           Included(ps, pt), Included(cs, ct), Included(pf, pft), Included(sf, sft) >>
          \in InexactTotals THEN 1 ELSE 0)

\* items: a sequence of [purchasePrice, commission]
RECURSIVE SumPrice(_)
SumPrice(items) ==
  IF items = << >> THEN 0 ELSE Head(items).purchasePrice + SumPrice(Tail(items))

\* product.commission || 0
RECURSIVE SumCommission(_)
SumCommission(items) ==
  IF items = << >> THEN 0 ELSE Head(items).commission + SumCommission(Tail(items))

\* SumPerItem that converts and rounds the two subtotals, under which
\* C25_ModesDiffer fails: per_item is subtotal
SumPerItem_OfSubtotals(items, priceTaxType, commissionTaxType, rate, mode) ==
    WithTaxRounded(SumPrice(items), priceTaxType, rate, mode)
  + WithTaxRounded(SumCommission(items), commissionTaxType, rate, mode)

\* per_item: each item's price and commission converted and rounded on its own
RECURSIVE SumPerItem(_, _, _, _, _)
SumPerItem(items, priceTaxType, commissionTaxType, rate, mode) ==
  IF items = << >> THEN 0
  ELSE WithTaxRounded(Head(items).purchasePrice, priceTaxType, rate, mode)
     + WithTaxRounded(Head(items).commission, commissionTaxType, rate, mode)
     + SumPerItem(Tail(items), priceTaxType, commissionTaxType, rate, mode)

\* TaxRateOrDefault with a default of 0, under which C12_AbsentMeansDefault
\* fails for a configuration without taxRate
TaxRateOrDefault_Zero(config) ==
  IF IsSome(config.taxRate) THEN Val(config.taxRate) ELSE 0

\* config.taxRate ?? 0.1
TaxRateOrDefault(config) ==
  IF IsSome(config.taxRate) THEN Val(config.taxRate) ELSE 10

\* config.roundingConfig || {calculationType: 'total', roundingMode: 'floor'}
RoundingOrDefault(config) ==
  IF IsSome(config.roundingConfig) THEN Val(config.roundingConfig)
  ELSE [calculationType |-> "total", roundingMode |-> "floor"]

calculateInvoiceAmount(items, config, participationFee, participationFeeTaxType, shippingFee, shippingFeeTaxType) ==
  LET taxRate == TaxRateOrDefault(config)
      rc == RoundingOrDefault(config)
      mode == rc.roundingMode
  IN
  IF rc.calculationType = "per_item" THEN
    applyRounding(
      100 * ( SumPerItem(items, config.productPriceTaxType, config.commissionTaxType, taxRate, mode)
            + WithTaxRounded(participationFee, participationFeeTaxType, taxRate, mode)
            + WithTaxRounded(shippingFee, shippingFeeTaxType, taxRate, mode) ),
      mode)
  ELSE IF rc.calculationType = "subtotal" THEN
    applyRounding(
      100 * ( WithTaxRounded(SumPrice(items), config.productPriceTaxType, taxRate, mode)
            + WithTaxRounded(SumCommission(items), config.commissionTaxType, taxRate, mode)
            + WithTaxRounded(participationFee, participationFeeTaxType, taxRate, mode)
            + WithTaxRounded(shippingFee, shippingFeeTaxType, taxRate, mode) ),
      mode)
  ELSE
    applyRounding(
      TotalSum(SumPrice(items), config.productPriceTaxType,
               SumCommission(items), config.commissionTaxType,
               participationFee, participationFeeTaxType,
               shippingFee, shippingFeeTaxType, taxRate),
      mode)

(***************************************************************************)
(* normalizePrice (base-parser.ts, invoice-pdf-parser.ts)                  *)
(*                                                                         *)
(* A string is the sequence of its characters. "yen" is the half-width yen *)
(* sign U+00A5, "wide-yen" the full-width one U+FFE5, "en" the kanji for   *)
(* yen, "x" a letter. A value is a number [type, number], a string        *)
(* [type, chars], or something else (null, undefined, an object).         *)
(***************************************************************************)

Digits == << "0", "1", "2", "3", "4", "5", "6", "7", "8", "9" >>
IsDigit(c) == \E d \in 1..10 : Digits[d] = c
DigitValue(c) == (CHOOSE d \in 1..10 : Digits[d] = c) - 1

\* value.replace(/[,yen en]/g, ''): the class holds the comma, U+00A5 and the kanji
Replace(str) == SelectSeq(str, LAMBDA c : c \notin {",", "yen", "en"})

\* String.prototype.trim
RECURSIVE TrimStart(_)
TrimStart(str) ==
  IF str # << >> /\ Head(str) = " " THEN TrimStart(Tail(str)) ELSE str

RECURSIVE TrimEnd(_)
TrimEnd(str) ==
  IF str # << >> /\ str[Len(str)] = " " THEN TrimEnd(SubSeq(str, 1, Len(str) - 1)) ELSE str

Trim(str) == TrimEnd(TrimStart(str))

\* The value of the longest run of digits str starts with, after acc
RECURSIVE DigitsPrefix(_, _)
DigitsPrefix(str, acc) ==
  IF str # << >> /\ IsDigit(Head(str))
  THEN DigitsPrefix(Tail(str), 10 * acc + DigitValue(Head(str)))
  ELSE acc

\* parseFloat: leading white space is skipped, then the longest prefix that
\* is a number is read (a sign and digits here); None is NaN
parseFloat(str) ==
  LET t == TrimStart(str)
      negative == t # << >> /\ Head(t) = "-"
      body == IF negative THEN Tail(t) ELSE t
  IN
  IF body = << >> \/ ~IsDigit(Head(body)) THEN None
  ELSE Some(IF negative THEN -DigitsPrefix(body, 0) ELSE DigitsPrefix(body, 0))

\* base-parser.ts 356-364 (invoice-pdf-parser.ts 183-186 is its string branch)
normalizePrice(value) ==
  IF value.type = "number" THEN value.number
  ELSE IF value.type = "string" THEN
    LET cleaned == Trim(Replace(value.chars))
        parsed == parseFloat(cleaned)
    IN IF IsSome(parsed) /\ Val(parsed) # 0 THEN Val(parsed) ELSE 0
  ELSE 0

(***************************************************************************)
(* The rows of a CSV file (ecoring-parser.ts CSVParser, timeless-parser.ts)*)
(*                                                                         *)
(* A record of the file is [productId, name, purchasePrice]: the cells of  *)
(* the columns the parser reads, "" and the empty string for an empty      *)
(* cell; parse is called without a mapping, as the import handler does.    *)
(***************************************************************************)

\* this.normalizePrice(cell || 0): an empty cell is falsy
PriceOfCell(cell) ==
  IF cell = << >> THEN normalizePrice([type |-> "number", number |-> 0])
  ELSE normalizePrice([type |-> "string", chars |-> cell])

RowOf(record) ==
  [productId |-> record.productId, name |-> record.name,
   purchasePrice |-> PriceOfCell(record.purchasePrice)]

\* ecoring-parser.ts 138-173: a record is kept when its name is not empty
CSVParserParse(records) ==
  SelectSeq([k \in 1..Len(records) |-> RowOf(records[k])], LAMBDA row : row.name # "")

\* timeless-parser.ts 61-104: a record is kept when it has a name and a
\* product number
TimelessParseCSV(records) ==
  SelectSeq([k \in 1..Len(records) |-> RowOf(records[k])],
            LAMBDA row : row.name # "" /\ row.productId # "")

(***************************************************************************)
(* The No-and-price token of an Apre items PDF (part_011 359-443)          *)
(***************************************************************************)

\* noAndPrice.indexOf(','): the place of the first comma, counted from 1;
\* 0 is the -1 of the code
IndexOfComma(str) ==
  LET places == {k \in 1..Len(str) : str[k] = ","} IN
  IF places = {} THEN 0 ELSE CHOOSE k \in places : \A m \in places : k <= m

\* /^\d{3}$/.test(afterComma), with the test of the length
IsThreeDigits(str) == Len(str) = 3 /\ \A k \in 1..3 : IsDigit(str[k])

\* parseInt of a piece of the token; None is NaN
parseInt(str) ==
  IF str # << >> /\ IsDigit(Head(str)) THEN Some(DigitsPrefix(str, 0)) ELSE None

\* Math.abs(no - expectedNo); None is NaN
Diff(no, expectedNo) == IF IsSome(no) THEN Some(Abs(Val(no) - expectedNo)) ELSE None

\* part_011 359-443: the token is quantity (one digit), No (one or two
\* digits) and the price with its comma, written together. The place of the
\* split follows from the number of digits before the comma; with four
\* digits the No nearer to previousNo + 1 is taken.
parseNoAndPrice(noAndPrice, previousNo) ==
  LET commaIndex == IndexOfComma(noAndPrice)
      beforeComma == SubSeq(noAndPrice, 1, commaIndex - 1)
      afterComma == SubSeq(noAndPrice, commaIndex + 1, Len(noAndPrice))
      whole == [no |-> << "0" >>, price |-> noAndPrice]
      Split(digits) ==
        [no |-> SubSeq(beforeComma, 2, 1 + digits),
         price |-> SubSeq(beforeComma, 2 + digits, Len(beforeComma)) \o << "," >> \o afterComma]
      diffA == Diff(parseInt(SubSeq(beforeComma, 2, 2)), previousNo + 1)
      diffB == Diff(parseInt(SubSeq(beforeComma, 2, 3)), previousNo + 1)
  IN
  IF commaIndex = 0 THEN whole
  ELSE IF ~IsThreeDigits(afterComma) THEN whole
  ELSE IF Len(beforeComma) = 3 THEN Split(1)
  ELSE IF Len(beforeComma) = 4 THEN
    (IF IsSome(diffA) /\ IsSome(diffB) /\ Val(diffB) < Val(diffA) THEN Split(2) ELSE Split(1))
  ELSE IF Len(beforeComma) = 5 THEN Split(2)
  ELSE IF Len(beforeComma) = 6 THEN Split(2)
  ELSE whole

(***************************************************************************)
(* Fee resolution and the verdict, as each handler computes them           *)
(***************************************************************************)

\* The import handler (route.ts 500-513): the supplier's fee only; the new
\* ImportLog has no override yet. supplierConfig.participationFee?.amount || 0,
\* taxed when the fee is set and its taxType is 'excluded'.
ImportFee(configFee) ==
  IF IsSome(configFee) THEN Val(configFee) ELSE [amount |-> 0, taxType |-> "included"]

\* ResolveFee with a truthiness test of the override, under which
\* C8_FeeResolution fails for an override of 0
ResolveFee_Truthy(logFee, logFeeTaxType, configFee) ==
  IF IsSome(logFee) /\ Val(logFee) # 0 THEN
    [amount |-> Val(logFee),
     taxType |-> IF IsSome(logFeeTaxType) THEN Val(logFeeTaxType) ELSE "included"]
  ELSE IF IsSome(configFee) THEN Val(configFee)
  ELSE [amount |-> 0, taxType |-> "included"]

\* The recomputation handlers (import-logs PATCH 142-172, products POST 213-243,
\* products PATCH 446-476): ImportLog value, else supplier setting, else 0.
\* importLog.participationFeeTaxType || 'included'
ResolveFee(logFee, logFeeTaxType, configFee) ==
  IF IsSome(logFee) THEN
    [amount |-> Val(logFee),
     taxType |-> IF IsSome(logFeeTaxType) THEN Val(logFeeTaxType) ELSE "included"]
  ELSE IF IsSome(configFee) THEN Val(configFee)
  ELSE [amount |-> 0, taxType |-> "included"]

\* supplierConfig.taxRate ?? 0.1 (route.ts 466)
ImportTaxRate(config) ==
  IF IsSome(config.taxRate) THEN Val(config.taxRate) ELSE 10

\* supplierConfig.taxRate || 0.1 (import-logs PATCH 123): 0 is falsy
RecomputeTaxRate(config) ==
  IF IsSome(config.taxRate) /\ Val(config.taxRate) # 0 THEN Val(config.taxRate) ELSE 10

\* Math.floor(productTotal + commissionTotal + participationFee + shippingFee)
\* (route.ts 478-516, import-logs PATCH 126-175): the four parts are taxed by
\* multiplication only and the sum is floored once. The floor of the double
\* sum is the floor of the exact sum for the amounts of this model.
FlooredTotal(items, config, rate, pFee, sFee) ==
  MathFloor( WithTax(SumPrice(items), config.productPriceTaxType, rate)
           + WithTax(SumCommission(items), config.commissionTaxType, rate)
           + WithTax(pFee.amount, pFee.taxType, rate)
           + WithTax(sFee.amount, sFee.taxType, rate) )

ImportSystemAmount(items, config) ==
  FlooredTotal(items, config, ImportTaxRate(config),
               ImportFee(config.participationFee), ImportFee(config.shippingFee))

RecomputeSystemAmount(items, config, log) ==
  FlooredTotal(items, config, RecomputeTaxRate(config),
               ResolveFee(log.participationFee, log.participationFeeTaxType,
                          config.participationFee),
               ResolveFee(log.shippingFee, log.shippingFeeTaxType, config.shippingFee))

\* IsMismatch with the strict comparison, under which C1_VerdictConsistent
\* fails for a difference of exactly 1
IsMismatch_Strict(amountDifference) == amountDifference > 1

\* hasAmountMismatch = amountDifference >= 1
IsMismatch(amountDifference) == amountDifference >= 1

\* route.ts 464-540: the verdict fields of `results`, which start as
\* {invoiceAmount, systemAmount: null, amountDifference: null, hasAmountMismatch: false}.
ImportVerdict(items, parserConfig, invoiceAmount) ==
  IF ~IsSome(parserConfig) THEN
    [systemAmount |-> None, amountDifference |-> None, hasAmountMismatch |-> FALSE]
  ELSE
    LET sys == ImportSystemAmount(items, Val(parserConfig)) IN
    IF IsSome(invoiceAmount) THEN
      [systemAmount |-> Some(sys),
       amountDifference |-> Some(Abs(Val(invoiceAmount) - sys)),
       hasAmountMismatch |-> IsMismatch(Abs(Val(invoiceAmount) - sys))]
    ELSE
      [systemAmount |-> Some(sys), amountDifference |-> None, hasAmountMismatch |-> TRUE]

\* import-logs PATCH 174-195 (products POST 245-266, products PATCH 478-499):
\* amountDifference = null and hasAmountMismatch = false unless the log has
\* an invoiceAmount.
RecomputeVerdict(items, config, log) ==
  LET sys == RecomputeSystemAmount(items, config, log) IN
  IF IsSome(log.invoiceAmount) THEN
    [systemAmount |-> Some(sys),
     amountDifference |-> Some(Abs(Val(log.invoiceAmount) - sys)),
     hasAmountMismatch |-> IsMismatch(Abs(Val(log.invoiceAmount) - sys))]
  ELSE
    [systemAmount |-> Some(sys), amountDifference |-> None, hasAmountMismatch |-> FALSE]

(***************************************************************************)
(* Names, files and parsers                                                *)
(*                                                                         *)
(* A name (of a supplier, of a file) is the set of the keywords it         *)
(* contains, so that name.includes(k) is k \in name. The keywords are      *)
(* written in ASCII: rakusatsu-meisai is the Apre items keyword,           *)
(* seisansho the RevaAuc one, seikyu the word for billing, meisai-ichiran  *)
(* the Apre detail listing. A word in Japanese script is written ja: and   *)
(* its reading (ja:daikichi). A name may hold a word in upper or mixed     *)
(* case (DAIKICHI, Apre), which toLowerCase folds; the empty set is the    *)
(* empty name and the name that is not given. A MIME type is one word.     *)
(***************************************************************************)

\* <<k, w>>: k is a proper substring of the word w
SubstringOf ==
  { <<"seisan", "seisansho">>, <<"ore", "store">>,
    <<"csv", "text/csv">>, <<"pdf", "application/pdf">> }

\* word.includes(keyword)
WordIncludes(word, keyword) == keyword = word \/ <<keyword, word>> \in SubstringOf

Includes(name, keyword) == \E word \in name : WordIncludes(word, keyword)

\* String.prototype.toLowerCase on a word, and on a name
LowerWord(word) ==
  CASE word = "DAIKICHI" -> "daikichi"
    [] word = "Ecoring" -> "ecoring"
    [] word = "Apre" -> "apre"
    [] word = "ORE" -> "ore"
    [] word = "TEXT/CSV" -> "text/csv"
    [] word = "Application/PDF" -> "application/pdf"
    [] word = "Invoice" -> "invoice"
    [] word = "Slip" -> "slip"
    [] OTHER -> word

toLowerCase(name) == { LowerWord(word) : word \in name }

\* getParser without the toLowerCase of the supplier name, under which
\* C14_SelectorDispatch fails for a name in upper case
getParser_CaseSensitive(fileType, supplierName) ==
  LET type == LowerWord(fileType) IN
  IF WordIncludes(type, "csv") \/ type = "text/csv" THEN
    IF Includes(supplierName, "daikichi") \/ Includes(supplierName, "ja:daikichi")
      THEN "DaikichiParser"
    ELSE IF Includes(supplierName, "otakaraya") \/ Includes(supplierName, "ja:otakaraya")
      THEN "OtakarayaParser"
    ELSE IF Includes(supplierName, "ecoring") THEN "EcoringParser"
    ELSE IF Includes(supplierName, "timeless") \/ Includes(supplierName, "ja:timeless")
      THEN "TimelessParser"
    ELSE "CSVParser"
  ELSE IF WordIncludes(type, "pdf") \/ type = "application/pdf" THEN
    IF Includes(supplierName, "apre") \/ Includes(supplierName, "ja:apre") THEN "ApreParser"
    ELSE IF \/ Includes(supplierName, "revaauc") \/ Includes(supplierName, "ja:ribaoku")
            \/ Includes(supplierName, "ja:rebaoku")
      THEN "RevaAucParser"
    ELSE IF Includes(supplierName, "ore") \/ Includes(supplierName, "ja:ore") THEN "OreParser"
    ELSE IF Includes(supplierName, "timeless") \/ Includes(supplierName, "ja:timeless")
      THEN "TimelessParser"
    ELSE "PDFParser"
  ELSE "unsupported"

\* parser-factory.ts 18-73: the parser for a MIME type and a supplier name;
\* "unsupported" is the Error of line 72
getParser(fileType, supplierName) ==
  LET type == LowerWord(fileType)
      normalizedName == toLowerCase(supplierName)
  IN
  IF WordIncludes(type, "csv") \/ type = "text/csv" THEN
    IF Includes(normalizedName, "daikichi") \/ Includes(normalizedName, "ja:daikichi")
      THEN "DaikichiParser"
    ELSE IF Includes(normalizedName, "otakaraya") \/ Includes(normalizedName, "ja:otakaraya")
      THEN "OtakarayaParser"
    ELSE IF Includes(normalizedName, "ecoring") THEN "EcoringParser"
    ELSE IF Includes(normalizedName, "timeless") \/ Includes(normalizedName, "ja:timeless")
      THEN "TimelessParser"
    ELSE "CSVParser"
  ELSE IF WordIncludes(type, "pdf") \/ type = "application/pdf" THEN
    IF Includes(normalizedName, "apre") \/ Includes(normalizedName, "ja:apre") THEN "ApreParser"
    ELSE IF \/ Includes(normalizedName, "revaauc") \/ Includes(normalizedName, "ja:ribaoku")
            \/ Includes(normalizedName, "ja:rebaoku")
      THEN "RevaAucParser"
    ELSE IF Includes(normalizedName, "ore") \/ Includes(normalizedName, "ja:ore") THEN "OreParser"
    ELSE IF Includes(normalizedName, "timeless") \/ Includes(normalizedName, "ja:timeless")
      THEN "TimelessParser"
    ELSE "PDFParser"
  ELSE "unsupported"

Thrown == [ok |-> FALSE, products |-> << >>, invoiceSummary |-> None]
Parsed(products, invoiceSummary) ==
  [ok |-> TRUE, products |-> products, invoiceSummary |-> invoiceSummary]

\* extractProducts of the Apre, RevaAuc and Ore parsers (part_011 275-282,
\* part_013 63-68, ore-parser.ts 43-50): without the start marker of the
\* supplier's format the text yields no row, and nothing is thrown
extractProducts(file) ==
  IF file.text = "unmarked" THEN << >> ELSE file.products

\* parser.parse(input): input is "buffer" (the downloaded bytes of the file)
\* or "text" (the text the client extracted from it). A CSV parser returns
\* the rows only; Apre and RevaAuc return rows and the printed total, and
\* throw when the PDF has no text; Ore returns a bare array, refuses a
\* Buffer and throws on a blank text; Timeless reads a PDF as a summary
\* without rows; the generic PDF parser returns an empty array.
Parse(parser, file, input) ==
  CASE parser \in {"DaikichiParser", "OtakarayaParser", "EcoringParser", "CSVParser"} ->
         IF input = "buffer" /\ file.mimeType # "pdf"
         THEN Parsed(file.products, None) ELSE Thrown
    [] parser = "TimelessParser" ->
         IF input # "buffer" THEN Thrown
         ELSE IF file.mimeType = "pdf"
              THEN (IF file.text = "empty" THEN Thrown ELSE Parsed(<< >>, file.invoiceSummary))
         ELSE Parsed(file.products, None)
    [] parser \in {"ApreParser", "RevaAucParser"} ->
         IF input = "buffer" /\ file.mimeType = "pdf" /\ file.text # "empty"
         THEN Parsed(extractProducts(file), file.invoiceSummary) ELSE Thrown
    [] parser = "OreParser" ->
         IF input = "text" /\ file.text # "empty"
         THEN Parsed(extractProducts(file), None) ELSE Thrown
    [] parser = "PDFParser" ->
         IF file.mimeType = "pdf" THEN Parsed(<< >>, None) ELSE Thrown
    [] OTHER -> Thrown

\* invoice-pdf-parser.ts 12-39: the total of a reference PDF, for the four
\* suppliers it knows; undefined for every other supplier and on any error.
extractInvoiceSummary(file, supplierName) ==
  IF /\ file.text # "empty"
     /\ \E k \in {"daikichi", "otakaraya", "ecoring", "apre"} : Includes(supplierName, k)
  THEN file.invoiceSummary ELSE None

\* route.ts 91-111: an items PDF is told by supplier and file name; the
\* supplier name is compared in lower case, the file name as it is
IsProductPdf(file, supplierName) ==
  LET supplierLower == toLowerCase(supplierName) IN
  \/ /\ Includes(supplierLower, "apre") \/ Includes(supplierLower, "ja:apre")
     /\ Includes(file.name, "rakusatsu-meisai")
  \/ /\ \/ Includes(supplierLower, "revaauc") \/ Includes(supplierLower, "ja:ribaoku")
        \/ Includes(supplierLower, "ja:rebaoku")
     /\ Includes(file.name, "seisansho")
  \/ /\ Includes(supplierLower, "ore") \/ Includes(supplierLower, "ja:ore")
     /\ Includes(file.name, "Slip")

csvFilesOf(files) == SelectSeq(files, LAMBDA f : Includes(f.name, ".csv"))
pdfFilesOf(files) == SelectSeq(files, LAMBDA f : WordIncludes(f.mimeType, "pdf"))
productPdfFilesOf(files, supplierName) ==
  SelectSeq(pdfFilesOf(files), LAMBDA f : IsProductPdf(f, supplierName))
referencePdfFilesOf(files, supplierName) ==
  SelectSeq(pdfFilesOf(files), LAMBDA f : ~IsProductPdf(f, supplierName))

\* route.ts 381-382
IsApre(supplierName) == Includes(supplierName, "apre")

\* sortedFilesOf without the sort, under which C21_PriorityScan fails: the
\* reference PDFs are read in the order of the listing
sortedFilesOf_Unsorted(refs, supplierName) == refs

\* route.ts 388-407: a stable sort; for Apre the detail listings first, then
\* (for every supplier) the names with a billing keyword first.
IsTargetName(name) ==
  Includes(name, "meisai-ichiran") \/ Includes(name, "auction-meisai")
IsInvoiceName(name) == Includes(name, "seikyu") \/ Includes(name, "invoice")

sortedFilesOf(refs, supplierName) ==
  LET T(f) == IsApre(supplierName) /\ IsTargetName(toLowerCase(f.name))
      I(f) == IsInvoiceName(toLowerCase(f.name))
  IN SelectSeq(refs, LAMBDA f : T(f) /\ I(f))
     \o SelectSeq(refs, LAMBDA f : T(f) /\ ~I(f))
     \o SelectSeq(refs, LAMBDA f : ~T(f) /\ I(f))
     \o SelectSeq(refs, LAMBDA f : ~T(f) /\ ~I(f))

\* route.ts 413-419
IsInvoicePdf(name) ==
  \/ Includes(name, "seikyu") \/ Includes(name, "invoice") \/ Includes(name, "seisan")
  \/ Includes(name, "meisai-ichiran") \/ Includes(name, "auction-meisai")
  \/ ( Includes(name, ".pdf") /\ ~Includes(name, "rakusatsu-meisai")
       /\ ~Includes(name, "chumon") )

\* route.ts 260-264, but for parserConfig.parser, which no configuration here sets
IsOre(supplierName) ==
  LET lower == toLowerCase(supplierName) IN
  Includes(lower, "ore") \/ Includes(lower, "ja:ore") \/ Includes(lower, "nihon-tokei")

(***************************************************************************)
(* State                                                                   *)
(***************************************************************************)

VARIABLES
  supplier,      \* the supplier row: [name, parserConfig]
  listing,       \* Drive: folder -> the files listFiles returns, in order
  folderStatus,  \* driveFolder.status of each folder
  products,      \* the product table: productId -> None or Some(row)
  importLogs,    \* the importLog table: id -> None or Some(row)
  proc,          \* the import requests: id -> the handler's locals
  faults,        \* the exceptions the collaborators have raised so far
  edits,         \* the fee and item requests served so far
  scenario,      \* what is explored: [requests, faults, edits]
  call           \* a call of a function of the parsers: [fn, args, result]

vars == << supplier, listing, folderStatus, products, importLogs, proc, faults, edits,
           scenario, call >>

\* Bounds of the model
MaxFaults == 1
MaxEdits == 1
MaxLen == 3     \* the characters of a string given to normalizePrice

Folders == {"A", "B"}
Procs == {"r1", "r2"}
ProductIds == {"1", "2", "3"}

\* folder.auctionDate; folder.folderPath.split('/').pop() is the folder itself
auctionDateOf == [f \in Folders |-> IF f = "A" THEN "d1" ELSE "d2"]

\* The folder each import request is for
folderOf == [p \in Procs |-> IF p = "r1" THEN "A" ELSE "B"]

\* prisma.importLog.create (route.ts 55-60): every other column at its default
NewImportLog(folder) ==
  [folderPath |-> folder, status |-> "processing",
   itemsProcessed |-> 0, itemsSuccess |-> 0, itemsFailed |-> 0,
   errorDetails |-> << >>,
   invoiceAmount |-> None, systemAmount |-> None, amountDifference |-> None,
   hasAmountMismatch |-> FALSE,
   participationFee |-> None, participationFeeTaxType |-> None,
   shippingFee |-> None, shippingFeeTaxType |-> None]

\* route.ts 63-72
NewResults ==
  [processed |-> 0, success |-> 0, failed |-> 0, errors |-> << >>,
   invoiceAmount |-> None, systemAmount |-> None, amountDifference |-> None,
   hasAmountMismatch |-> FALSE]

\* The locals of a request that has not been received yet. acc, scanned
\* and handed are not in the code: acc records the line items the run's
\* files yielded, scanned the reference PDFs the run has downloaded and
\* parsed, in order, and handed the calls of parser.parse for the items
\* PDFs: the file, the parser getParser returned and the kind of input.
IdleProc(p) ==
  [pc |-> "idle", folder |-> folderOf[p], extractedTexts |-> {},
   importLogId |-> None, i |-> 1, prods |-> << >>, j |-> 1, existing |-> FALSE,
   results |-> NewResults, acc |-> << >>, scanned |-> << >>, handed |-> << >>]

\* The rows of the product table that a query selects, as the items the
\* totals are summed over (in productId order; the sums do not depend on it)
RECURSIVE RowsOf(_, _)
RowsOf(table, ids) ==
  IF ids = {} THEN << >>
  ELSE LET id == CHOOSE x \in ids : TRUE
       IN << Val(table[id]) >> \o RowsOf(table, ids \ {id})

\* prisma.product.findMany({where: {supplierId, auctionDate}}) (route.ts 470-475)
ProductsOfDate(table, date) ==
  RowsOf(table, {id \in ProductIds : IsSome(table[id]) /\ Val(table[id]).auctionDate = Some(date)})

\* prisma.product.findMany({where: {auctionName}}) (import-logs PATCH 113-118)
ProductsOfAuction(table, auctionName) ==
  RowsOf(table, {id \in ProductIds : IsSome(table[id]) /\ Val(table[id]).auctionName = auctionName})

(***************************************************************************)
(* The import handler, POST sync/import/[folderId] (route.ts 14-625), one  *)
(* action per await of the handler                                         *)
(***************************************************************************)

Local(p) == proc[p]
Files(p) == listing[Local(p).folder]
\* supplierName = folder.auctionName: the folders are named after the supplier
csvFiles(p) == csvFilesOf(Files(p))
productPdfFiles(p) == productPdfFilesOf(Files(p), supplier.name)
referencePdfFiles(p) == referencePdfFilesOf(Files(p), supplier.name)
sortedFiles(p) == sortedFilesOf(referencePdfFiles(p), supplier.name)

CanFault == faults < scenario.faults
CanEdit == edits < scenario.edits

SetLocal(p, new) == proc' = [proc EXCEPT ![p] = new]

\* An exception that leaves the inner try block (route.ts 577)
Throw(p) ==
  /\ CanFault
  /\ faults' = faults + 1
  /\ SetLocal(p, [Local(p) EXCEPT !.pc = "innerCatch"])

\* The body of the request (route.ts 32-33): the extracted text of every file
\* of the folder, or of none. It is read for an Ore supplier only.
TextChoices(p) ==
  IF IsOre(supplier.name)
  THEN {{}, {Files(p)[k].id : k \in 1..Len(Files(p))}}
  ELSE {{}}

\* route.ts 36-52: the folder is found and marked as being processed
Start(p) ==
  /\ Local(p).pc = "idle"
  /\ p \in scenario.requests
  /\ \E texts \in TextChoices(p) :
       SetLocal(p, [Local(p) EXCEPT !.pc = "createLog", !.extractedTexts = texts])
  /\ folderStatus' = [folderStatus EXCEPT ![Local(p).folder] = "processing"]
  /\ UNCHANGED << supplier, listing, products, importLogs, faults, edits, scenario, call >>

\* route.ts 55-61; an exception here is caught by the outer catch alone
CreateLog(p) ==
  /\ Local(p).pc = "createLog"
  /\ \/ /\ importLogs' = [importLogs EXCEPT ![p] = Some(NewImportLog(Local(p).folder))]
        /\ SetLocal(p, [Local(p) EXCEPT !.pc = "listFiles", !.importLogId = Some(p)])
        /\ UNCHANGED faults
     \/ /\ CanFault
        /\ faults' = faults + 1
        /\ SetLocal(p, [Local(p) EXCEPT !.pc = "outerCatch"])
        /\ UNCHANGED importLogs
  /\ UNCHANGED << supplier, listing, folderStatus, products, edits, scenario, call >>

\* route.ts 76-156: the listing, the classification, the supplier lookup
ListFiles(p) ==
  /\ Local(p).pc = "listFiles"
  /\ \/ /\ SetLocal(p, [Local(p) EXCEPT !.pc = "csv", !.i = 1])
        /\ UNCHANGED faults
     \/ Throw(p)
  /\ UNCHANGED << supplier, listing, folderStatus, products, importLogs, edits, scenario, call >>

PushError(results, what) == [results EXCEPT !.errors = Append(@, what)]

\* The next file of a loop, or the step after the loop
NextFile(l, loop) == [l EXCEPT !.pc = loop, !.i = l.i + 1, !.prods = << >>, !.j = 1]

\* After a file is parsed: its first item, or the document record
ToItems(l, loop, prods) ==
  [l EXCEPT !.prods = prods, !.j = 1,
            !.pc = IF prods = << >> THEN loop \o "Doc" ELSE loop \o "Find"]

\* route.ts 159-174, 243-246: download, getParser, parse of one CSV file;
\* whatever is thrown is caught per file and only recorded
CsvFile(p) ==
  LET l == Local(p)
      file == csvFiles(p)[l.i]
      parser == getParser(file.mimeType, supplier.name)
      res == Parse(parser, file, "buffer")
  IN
  /\ l.pc = "csv"
  /\ l.i <= Len(csvFiles(p))
  /\ \/ /\ res.ok
        /\ SetLocal(p, [ToItems(l, "csv", res.products) EXCEPT
                          !.results.processed = @ + Len(res.products),
                          !.acc = @ \o res.products])
        /\ UNCHANGED faults
     \/ /\ ~res.ok
        /\ SetLocal(p, [NextFile(l, "csv") EXCEPT !.results = PushError(@, file.id)])
        /\ UNCHANGED faults
     \/ /\ CanFault        \* downloadFile throws
        /\ faults' = faults + 1
        /\ SetLocal(p, [NextFile(l, "csv") EXCEPT !.results = PushError(@, file.id)])
  /\ UNCHANGED << supplier, listing, folderStatus, products, importLogs, edits, scenario, call >>

CsvDone(p) ==
  /\ Local(p).pc = "csv"
  /\ Local(p).i > Len(csvFiles(p))
  /\ SetLocal(p, [Local(p) EXCEPT !.pc = "pdf", !.i = 1])
  /\ UNCHANGED << supplier, listing, folderStatus, products, importLogs, faults, edits, scenario, call >>

\* CaptureSummary without the test for an earlier total, under which
\* C5_FirstSummaryWins fails for two items PDFs that both print a total
CaptureSummary_Last(invoiceAmount, invoiceSummary) ==
  IF IsSome(invoiceSummary) THEN invoiceSummary ELSE invoiceAmount

\* route.ts 294-297: the total of an items PDF is kept only while the run has
\* no invoiceAmount yet
CaptureSummary(invoiceAmount, invoiceSummary) ==
  IF IsSome(invoiceSummary) /\ ~IsSome(invoiceAmount) THEN invoiceSummary
  ELSE invoiceAmount

\* route.ts 277-279: console.warn and continue; nothing of the run changes
SkipFile(l, file) == NextFile(l, "pdf")

\* route.ts 250-298, 373-376: one items PDF. For Ore the text the client
\* extracted is parsed, and the file is skipped when there is none. The MIME
\* type of a file of pdfFiles is a PDF one, so getParser does not throw here.
PdfFile(p) ==
  LET l == Local(p)
      file == productPdfFiles(p)[l.i]
      parser == getParser(file.mimeType, supplier.name)
      hasExtractedText == file.id \in l.extractedTexts
      input == IF IsOre(supplier.name) THEN "text" ELSE "buffer"
      res == Parse(parser, file, input)
      captured == CaptureSummary(l.results.invoiceAmount, res.invoiceSummary)
      given == [file |-> file.id, parser |-> parser, input |-> input]
  IN
  /\ l.pc = "pdf"
  /\ l.i <= Len(productPdfFiles(p))
  /\ \/ /\ IsOre(supplier.name) /\ ~hasExtractedText
        /\ SetLocal(p, SkipFile(l, file))
        /\ UNCHANGED faults
     \/ /\ ~(IsOre(supplier.name) /\ ~hasExtractedText)
        /\ \/ /\ res.ok
              /\ SetLocal(p, [ToItems(l, "pdf", res.products) EXCEPT
                                !.results.processed = @ + Len(res.products),
                                !.results.invoiceAmount = captured,
                                !.acc = @ \o res.products,
                                !.handed = Append(@, given)])
              /\ UNCHANGED faults
           \/ /\ ~res.ok
              /\ SetLocal(p, [NextFile(l, "pdf") EXCEPT
                                !.results = PushError(@, file.id),
                                !.handed = Append(@, given)])
              /\ UNCHANGED faults
           \/ /\ ~IsOre(supplier.name)
              /\ CanFault        \* downloadFile throws
              /\ faults' = faults + 1
              /\ SetLocal(p, [NextFile(l, "pdf") EXCEPT !.results = PushError(@, file.id)])
  /\ UNCHANGED << supplier, listing, folderStatus, products, importLogs, edits, scenario, call >>

PdfDone(p) ==
  /\ Local(p).pc = "pdf"
  /\ Local(p).i > Len(productPdfFiles(p))
  /\ SetLocal(p, [Local(p) EXCEPT !.pc = "ref", !.i = 1])
  /\ UNCHANGED << supplier, listing, folderStatus, products, importLogs, faults, edits, scenario, call >>

\* The row written for a parsed product (route.ts 187-217, 314-345)
CreatedRow(product, folder) ==
  [purchasePrice |-> product.purchasePrice, commission |-> product.commission,
   auctionDate |-> Some(auctionDateOf[folder]), auctionName |-> folder]

UpdatedRow(row, product, folder) ==
  [row EXCEPT !.purchasePrice = product.purchasePrice,
              !.commission = product.commission,
              !.auctionDate = Some(auctionDateOf[folder]),
              !.auctionName = folder]

\* ItemFailed that enters the item in the error list without counting it,
\* under which C27_EveryItemCountedOnce fails
ItemFailed_Uncounted(l, product) ==
  [l EXCEPT !.results.errors = Append(@, product.productId)]

ItemFailed(l, product) ==
  [l EXCEPT !.results.failed = @ + 1,
            !.results.errors = Append(@, product.productId)]

\* AfterItem that leaves the rest of the file's items aside, under which
\* C16_ItemFailureGoesOn fails
AfterItem_SkipRest(l, loop) ==
  [l EXCEPT !.j = Len(l.prods) + 1, !.pc = loop \o "Doc"]

\* After an item: the next item, or the document record of the file
AfterItem(l, loop) ==
  [l EXCEPT !.j = l.j + 1,
            !.pc = IF l.j + 1 > Len(l.prods) THEN loop \o "Doc" ELSE loop \o "Find"]

\* route.ts 180-182, 307-309: prisma.product.findUnique({where: {productId}})
ItemFind(p, loop) ==
  LET l == Local(p)
      product == l.prods[l.j]
  IN
  /\ l.pc = loop \o "Find"
  /\ \/ /\ SetLocal(p, [l EXCEPT !.pc = loop \o "Write",
                                  !.existing = IsSome(products[product.productId])])
        /\ UNCHANGED faults
     \/ /\ CanFault
        /\ faults' = faults + 1
        /\ SetLocal(p, AfterItem(ItemFailed(l, product), loop))
  /\ UNCHANGED << supplier, listing, folderStatus, products, importLogs, edits, scenario, call >>

\* route.ts 184-225, 311-355: update of the row found, or create; the row
\* is looked up by productId again by the store, so an update of a row that
\* is gone and a create of a row that has appeared both throw.
ItemWrite(p, loop) ==
  LET l == Local(p)
      product == l.prods[l.j]
      id == product.productId
  IN
  /\ l.pc = loop \o "Write"
  /\ \/ /\ l.existing /\ IsSome(products[id])
        /\ products' = [products EXCEPT ![id] = Some(UpdatedRow(Val(@), product, l.folder))]
        /\ SetLocal(p, AfterItem([l EXCEPT !.results.success = @ + 1], loop))
        /\ UNCHANGED faults
     \/ /\ ~l.existing /\ ~IsSome(products[id])
        /\ products' = [products EXCEPT ![id] = Some(CreatedRow(product, l.folder))]
        /\ SetLocal(p, AfterItem([l EXCEPT !.results.success = @ + 1], loop))
        /\ UNCHANGED faults
     \/ /\ l.existing # IsSome(products[id])
        /\ SetLocal(p, AfterItem(ItemFailed(l, product), loop))
        /\ UNCHANGED << products, faults >>
     \/ /\ CanFault
        /\ faults' = faults + 1
        /\ SetLocal(p, AfterItem(ItemFailed(l, product), loop))
        /\ UNCHANGED products
  /\ UNCHANGED << supplier, listing, folderStatus, importLogs, edits, scenario, call >>

\* route.ts 229-246, 359-376: prisma.document.upsert for the file; when it
\* throws, the file's catch records the file name
FileDoc(p, loop) ==
  LET l == Local(p)
      file == IF loop = "csv" THEN csvFiles(p)[l.i] ELSE productPdfFiles(p)[l.i]
  IN
  /\ l.pc = loop \o "Doc"
  /\ \/ /\ SetLocal(p, NextFile(l, loop))
        /\ UNCHANGED faults
     \/ /\ CanFault
        /\ faults' = faults + 1
        /\ SetLocal(p, [NextFile(l, loop) EXCEPT !.results = PushError(@, file.id)])
  /\ UNCHANGED << supplier, listing, folderStatus, products, importLogs, edits, scenario, call >>

\* ScansReferences without the exception for Apre, under which
\* C20_ApreOverride fails: the total of the items PDF is kept
ScansReferences_OnlyWhenNull(p) ==
  /\ ~IsSome(Local(p).results.invoiceAmount)
  /\ Len(referencePdfFiles(p)) > 0

\* route.ts 384: the reference PDFs are scanned when no total has been
\* found yet, and always for Apre
ScansReferences(p) ==
  /\ ~IsSome(Local(p).results.invoiceAmount) \/ IsApre(supplier.name)
  /\ Len(referencePdfFiles(p)) > 0

\* route.ts 409-455: one reference PDF of the sorted list. The first total
\* extracted ends the scan; an exception is caught per file and logged only.
RefFile(p) ==
  LET l == Local(p)
      file == sortedFiles(p)[l.i]
      isInvoicePdf == IsInvoicePdf(toLowerCase(file.name))
      summary == extractInvoiceSummary(file, supplier.name)
  IN
  /\ l.pc = "ref"
  /\ ScansReferences(p) \/ l.i > 1
  /\ l.i <= Len(sortedFiles(p))
  /\ \/ /\ isInvoicePdf /\ IsSome(summary)
        /\ SetLocal(p, [l EXCEPT !.pc = "verdict", !.results.invoiceAmount = summary,
                                  !.scanned = Append(@, file.id)])
        /\ UNCHANGED faults
     \/ /\ ~(isInvoicePdf /\ IsSome(summary))
        /\ SetLocal(p, [l EXCEPT !.i = l.i + 1,
                                  !.scanned = IF isInvoicePdf THEN Append(@, file.id) ELSE @])
        /\ UNCHANGED faults
     \/ /\ CanFault /\ isInvoicePdf       \* downloadFile throws
        /\ faults' = faults + 1
        /\ SetLocal(p, [l EXCEPT !.i = l.i + 1])
     \/ /\ CanFault /\ ~(isInvoicePdf /\ IsSome(summary))     \* document.upsert throws
        /\ faults' = faults + 1
        /\ SetLocal(p, [l EXCEPT !.i = l.i + 1,
                                  !.scanned = IF isInvoicePdf THEN Append(@, file.id) ELSE @])
  /\ UNCHANGED << supplier, listing, folderStatus, products, importLogs, edits, scenario, call >>

RefDone(p) ==
  /\ Local(p).pc = "ref"
  /\ \/ Local(p).i = 1 /\ ~ScansReferences(p)
     \/ Local(p).i > Len(sortedFiles(p))
  /\ SetLocal(p, [Local(p) EXCEPT !.pc = "verdict", !.i = 1])
  /\ UNCHANGED << supplier, listing, folderStatus, products, importLogs, faults, edits, scenario, call >>

\* route.ts 459-540: the products of the supplier and auction date are read
\* back and the verdict is computed from them
Verdict(p) ==
  LET l == Local(p)
      importedProducts == ProductsOfDate(products, auctionDateOf[l.folder])
      v == ImportVerdict(importedProducts, supplier.parserConfig, l.results.invoiceAmount)
  IN
  /\ l.pc = "verdict"
  /\ \/ /\ SetLocal(p, [l EXCEPT !.pc = "finalLog",
                                  !.results.systemAmount = v.systemAmount,
                                  !.results.amountDifference = v.amountDifference,
                                  !.results.hasAmountMismatch = v.hasAmountMismatch])
        /\ UNCHANGED faults
     \/ Throw(p)
  /\ UNCHANGED << supplier, listing, folderStatus, products, importLogs, edits, scenario, call >>

\* FinalStatus that calls every run with a failed item an error, under which
\* C3_StatusLifecycle fails for a run with failed and saved items
FinalStatus_NoPartial(results) ==
  IF results.failed > 0 THEN "error" ELSE "success"

\* route.ts 546-547
FinalStatus(results) ==
  IF results.failed > 0 /\ results.success = 0 THEN "error"
  ELSE IF results.failed > 0 THEN "partial"
  ELSE "success"

\* route.ts 543-561: errorDetails is left alone when there are no errors
FinalLogRow(row, results) ==
  [row EXCEPT !.status = FinalStatus(results),
              !.itemsProcessed = results.processed,
              !.itemsSuccess = results.success,
              !.itemsFailed = results.failed,
              !.errorDetails = IF Len(results.errors) > 0 THEN results.errors ELSE @,
              !.invoiceAmount = results.invoiceAmount,
              !.systemAmount = results.systemAmount,
              !.amountDifference = results.amountDifference,
              !.hasAmountMismatch = results.hasAmountMismatch]

FinalLog(p) ==
  /\ Local(p).pc = "finalLog"
  /\ \/ /\ importLogs' = [importLogs EXCEPT ![p] = Some(FinalLogRow(Val(@), Local(p).results))]
        /\ SetLocal(p, [Local(p) EXCEPT !.pc = "finalFolder"])
        /\ UNCHANGED faults
     \/ Throw(p) /\ UNCHANGED importLogs
  /\ UNCHANGED << supplier, listing, folderStatus, products, edits, scenario, call >>

\* route.ts 564-576
FinalFolder(p) ==
  /\ Local(p).pc = "finalFolder"
  /\ \/ /\ folderStatus' = [folderStatus EXCEPT ![Local(p).folder] = "completed"]
        /\ SetLocal(p, [Local(p) EXCEPT !.pc = "returned"])
        /\ UNCHANGED faults
     \/ Throw(p) /\ UNCHANGED folderStatus
  /\ UNCHANGED << supplier, listing, products, importLogs, edits, scenario, call >>

ErrorLogRow(row) == [row EXCEPT !.status = "error", !.errorDetails = << "exception" >>]

\* route.ts 577-595: the inner catch marks the log and the folder, and rethrows
InnerCatch(p) ==
  /\ Local(p).pc = "innerCatch"
  /\ importLogs' = [importLogs EXCEPT ![p] = Some(ErrorLogRow(Val(@)))]
  /\ folderStatus' = [folderStatus EXCEPT ![Local(p).folder] = "error"]
  /\ SetLocal(p, [Local(p) EXCEPT !.pc = "outerCatch"])
  /\ UNCHANGED << supplier, listing, products, faults, edits, scenario, call >>

\* OuterCatch that marks the log only, under which C4_StatusesReset fails
\* for an exception raised before the log exists
OuterCatch_LogOnly(p) ==
  /\ Local(p).pc = "outerCatch"
  /\ importLogs' = IF IsSome(Local(p).importLogId)
                   THEN [importLogs EXCEPT ![p] = Some(ErrorLogRow(Val(@)))]
                   ELSE importLogs
  /\ SetLocal(p, [Local(p) EXCEPT !.pc = "failed"])
  /\ UNCHANGED << supplier, listing, folderStatus, products, faults, edits, scenario, call >>

\* route.ts 596-624: the outer catch marks the folder, and the log if there is one
OuterCatch(p) ==
  /\ Local(p).pc = "outerCatch"
  /\ folderStatus' = [folderStatus EXCEPT ![Local(p).folder] = "error"]
  /\ importLogs' = IF IsSome(Local(p).importLogId)
                   THEN [importLogs EXCEPT ![p] = Some(ErrorLogRow(Val(@)))]
                   ELSE importLogs
  /\ SetLocal(p, [Local(p) EXCEPT !.pc = "failed"])
  /\ UNCHANGED << supplier, listing, products, faults, edits, scenario, call >>

ImportSteps(p) ==
  \/ Start(p) \/ CreateLog(p) \/ ListFiles(p)
  \/ CsvFile(p) \/ CsvDone(p) \/ PdfFile(p) \/ PdfDone(p)
  \/ ItemFind(p, "csv") \/ ItemWrite(p, "csv") \/ FileDoc(p, "csv")
  \/ ItemFind(p, "pdf") \/ ItemWrite(p, "pdf") \/ FileDoc(p, "pdf")
  \/ RefFile(p) \/ RefDone(p)
  \/ Verdict(p) \/ FinalLog(p) \/ FinalFolder(p)

Import(p) == ImportSteps(p) \/ InnerCatch(p) \/ OuterCatch(p)

(***************************************************************************)
(* The fee-edit handler and the item handlers, each one request            *)
(***************************************************************************)

\* A field of a request body: None when it is left out, Some(v) when given
\* (where v is itself None for null)
Given(field) == IsSome(field)

\* The configuration as the ?. reads of products POST see it: every field
\* of a missing parserConfig is undefined
ConfigOrUndefined(parserConfig) ==
  IF IsSome(parserConfig) THEN Val(parserConfig)
  ELSE [productPriceTaxType |-> "undefined", commissionTaxType |-> "undefined",
        taxRate |-> None, participationFee |-> None, shippingFee |-> None,
        roundingConfig |-> None]

\* The second importLog.update of a recomputation (import-logs PATCH 188-195)
WithVerdict(row, v) ==
  [row EXCEPT !.systemAmount = v.systemAmount,
              !.amountDifference = v.amountDifference,
              !.hasAmountMismatch = v.hasAmountMismatch]

\* import-logs PATCH 85-105: the fields of the body that are given
WithFees(row, body) ==
  [row EXCEPT
     !.participationFee = IF Given(body.participationFee) THEN Val(body.participationFee) ELSE @,
     !.participationFeeTaxType =
        IF Given(body.participationFeeTaxType) THEN body.participationFeeTaxType ELSE @,
     !.shippingFee = IF Given(body.shippingFee) THEN Val(body.shippingFee) ELSE @,
     !.shippingFeeTaxType =
        IF Given(body.shippingFeeTaxType) THEN body.shippingFeeTaxType ELSE @]

\* import-logs PATCH 107-199: the log as the recomputation leaves it. With
\* no product of the auction nothing is recomputed; with products of a
\* supplier without parserConfig the read of supplierConfig.taxRate throws
\* and the handler answers 500 after the first update.
Recomputed(row, table, parserConfig) ==
  LET items == ProductsOfAuction(table, row.folderPath) IN
  IF Len(items) > 0 /\ IsSome(parserConfig)
  THEN WithVerdict(row, RecomputeVerdict(items, Val(parserConfig), row))
  ELSE row

\* products POST 192-268: the same with ?. reads, so that a missing
\* parserConfig is computed with as an empty one
RecomputedOnCreate(row, table, parserConfig) ==
  LET items == ProductsOfAuction(table, row.folderPath) IN
  IF Len(items) > 0
  THEN WithVerdict(row, RecomputeVerdict(items, ConfigOrUndefined(parserConfig), row))
  ELSE row

\* PATCH import-logs/[id] (50-209)
FeeEdit(r, body) ==
  /\ CanEdit
  /\ IsSome(importLogs[r])
  /\ importLogs' = [importLogs EXCEPT
        ![r] = Some(Recomputed(WithFees(Val(@), body), products, supplier.parserConfig))]
  /\ edits' = edits + 1
  /\ UNCHANGED << supplier, listing, folderStatus, products, proc, faults, scenario, call >>

\* importLog.findFirst({where: {folderPath: {endsWith: auctionName}}}): one
\* of the logs of the folder, when there is one
LogsOfAuction(auctionName) ==
  {r \in Procs : IsSome(importLogs[r]) /\ Val(importLogs[r]).folderPath = auctionName}

\* POST products (112-279): a missing or null commission is stored as null,
\* which every sum reads as 0
ItemCreate(id, purchasePrice, commission, auctionName) ==
  LET table == [products EXCEPT ![id] =
                  Some([purchasePrice |-> purchasePrice, commission |-> commission,
                        auctionDate |-> None, auctionName |-> auctionName])]
  IN
  /\ CanEdit
  /\ ~IsSome(products[id])
  /\ products' = table
  /\ \/ /\ LogsOfAuction(auctionName) = {}
        /\ UNCHANGED importLogs
     \/ \E r \in LogsOfAuction(auctionName) :
          importLogs' = [importLogs EXCEPT
            ![r] = Some(RecomputedOnCreate(Val(@), table, supplier.parserConfig))]
  /\ edits' = edits + 1
  /\ UNCHANGED << supplier, listing, folderStatus, proc, faults, scenario, call >>

\* PATCH products/[id] (333-513); productId and name are left out of the body
ItemEdit(id, body) ==
  LET old == Val(products[id])
      table == [products EXCEPT ![id] = Some(
                  [old EXCEPT
                     !.purchasePrice = IF Given(body.purchasePrice)
                                       THEN Val(body.purchasePrice) ELSE @,
                     !.commission = IF Given(body.commission)
                                    THEN Val(body.commission) ELSE @])]
  IN
  /\ CanEdit
  /\ IsSome(products[id])
  /\ products' = table
  /\ \/ /\ \/ LogsOfAuction(old.auctionName) = {}
           \/ ~Given(body.purchasePrice) /\ ~Given(body.commission)
        /\ UNCHANGED importLogs
     \/ /\ Given(body.purchasePrice) \/ Given(body.commission)
        /\ \E r \in LogsOfAuction(old.auctionName) :
             importLogs' = [importLogs EXCEPT
               ![r] = Some(Recomputed(Val(@), table, supplier.parserConfig))]
  /\ edits' = edits + 1
  /\ UNCHANGED << supplier, listing, folderStatus, proc, faults, scenario, call >>

\* DELETE products/[id] (518-559): no recomputation
ItemDelete(id) ==
  /\ CanEdit
  /\ IsSome(products[id])
  /\ products' = [products EXCEPT ![id] = None]
  /\ edits' = edits + 1
  /\ UNCHANGED << supplier, listing, folderStatus, importLogs, proc, faults, scenario, call >>

\* DELETE products/by-auction (219-259): no recomputation
DeleteByAuction(auctionName) ==
  /\ CanEdit
  /\ products' = [id \in ProductIds |->
        IF IsSome(products[id]) /\ Val(products[id]).auctionName = auctionName
        THEN None ELSE products[id]]
  /\ edits' = edits + 1
  /\ UNCHANGED << supplier, listing, folderStatus, importLogs, proc, faults, scenario, call >>

(***************************************************************************)
(* The inputs: suppliers, Drive folders, request bodies                    *)
(***************************************************************************)

Product(id, purchasePrice, commission) ==
  [productId |-> id, purchasePrice |-> purchasePrice, commission |-> commission]

\* A file of a folder. text tells what pdf-parse (or the client, for Ore)
\* extracts from it: "marked" is a text with the start marker of the
\* supplier's format, "unmarked" a text without it, "empty" no text at all;
\* products and invoiceSummary are the rows and the total that the text
\* prints
File(id, name, mimeType, prods, invoiceSummary) ==
  [id |-> id, name |-> name, mimeType |-> mimeType, products |-> prods,
   invoiceSummary |-> invoiceSummary, text |-> "marked"]

WithText(file, text) == [file EXCEPT !.text = text]

Config(priceTax, commissionTax, taxRate, pFee, sFee, rounding) ==
  [productPriceTaxType |-> priceTax, commissionTaxType |-> commissionTax,
   taxRate |-> taxRate, participationFee |-> pFee, shippingFee |-> sFee,
   roundingConfig |-> rounding]

Fee(amount, taxType) == [amount |-> amount, taxType |-> taxType]

SupplierNames == { {"daikichi"}, {"apre"}, {"revaauc"}, {"ore"} }

\* Supplier names that carry the keyword of one parser, and names that
\* carry the keywords of two ("Apre Store", "RevaAuc Store"; "store"
\* includes "ore")
KeywordNames ==
  { {"apre"}, {"ore"}, {"ORE"}, {"nihon-tokei"}, {"apre", "store"}, {"revaauc", "store"} }

ParserConfigs ==
  { None,
    Some(Config("excluded", "excluded", Some(10), None, None, None)),
    Some(Config("excluded", "included", Some(0), Some(Fee(5, "excluded")), None, None)),
    Some(Config("included", "excluded", None, None, Some(Fee(5, "included")),
                Some([calculationType |-> "subtotal", roundingMode |-> "ceil"]))),
    Some(Config("excluded", "excluded", Some(10), Some(Fee(5, "excluded")), None,
                Some([calculationType |-> "per_item", roundingMode |-> "floor"]))) }

\* The keyword that makes a PDF an items PDF of the supplier
ItemsKeyword(supplierName) ==
  IF Includes(supplierName, "apre") THEN "rakusatsu-meisai"
  ELSE IF Includes(supplierName, "revaauc") THEN "seisansho"
  ELSE "Slip"

csvA == File("csvA", {".csv"}, "csv", << Product("1", 5, 5), Product("2", 5, 0) >>, None)
\* A CSV file that Drive reports with a MIME type that is not text/csv
csvOdd == File("csvOdd", {".csv"}, "application/vnd.ms-excel", << Product("2", 5, 0) >>, None)
csvB == File("csvB", {".csv"}, "csv", << Product("1", 10, 5) >>, None)
itemsPdf1(n) ==
  File("itemsPdf1", {ItemsKeyword(n), ".pdf"}, "pdf", << Product("3", 10, 0) >>, Some(28))
itemsPdf2(n) == File("itemsPdf2", {ItemsKeyword(n), ".pdf"}, "pdf", << >>, Some(27))
refInvoice == File("refInvoice", {"seikyu", ".pdf"}, "pdf", << >>, Some(16))
refListing == File("refListing", {"meisai-ichiran", ".pdf"}, "pdf", << >>, Some(17))
\* An items PDF in another format: a row and a total, but no start marker
itemsPdfUnmarked(n) ==
  WithText(File("itemsPdfUnmarked", {ItemsKeyword(n), ".pdf"}, "pdf",
                << Product("2", 5, 0) >>, Some(26)), "unmarked")
\* An items PDF that is a scan: no text
itemsPdfEmpty(n) ==
  WithText(File("itemsPdfEmpty", {ItemsKeyword(n), ".pdf"}, "pdf", << >>, None), "empty")
refOrder == File("refOrder", {"chumon", ".pdf"}, "pdf", << >>, Some(99))
\* Reference PDFs from which no total can be read
refOther == File("refOther", {"other", ".pdf"}, "pdf", << >>, None)
refBlank == File("refBlank", {"Invoice", ".pdf"}, "pdf", << >>, None)
refBoth == File("refBoth", {"meisai-ichiran", "seikyu", ".pdf"}, "pdf", << >>, None)

\* What the folder of an auction of the supplier may hold
ListingsA(n) ==
  { << refInvoice, csvA, itemsPdf1(n), itemsPdf2(n), refListing >>,
    << csvA, refOrder >>,
    << csvOdd, csvA >>,
    << itemsPdf2(n), itemsPdf1(n) >>,
    << refOther, refBlank, refListing, refBoth >>,
    << itemsPdfUnmarked(n), itemsPdfEmpty(n), itemsPdf1(n) >>,
    << >> }
ListingsB(n) == { << csvB >> }

FeeBodies ==
  [participationFee : {None, Some(None), Some(Some(0)), Some(Some(5))},
   participationFeeTaxType : {None, Some("excluded")},
   shippingFee : {None, Some(Some(5))},
   shippingFeeTaxType : {None}]

ItemBodies == [purchasePrice : {None, Some(10)}, commission : {None, Some(5)}]

(***************************************************************************)
(* The system                                                              *)
(***************************************************************************)

\* The state before any request
\* No function call is under observation
NoCall == [fn |-> "none", args |-> << >>, result |-> None]

Start0 ==
  /\ supplier \in [name : SupplierNames, parserConfig : ParserConfigs]
  /\ \E la \in ListingsA(supplier.name), lb \in ListingsB(supplier.name) :
       listing = [f \in Folders |-> IF f = "A" THEN la ELSE lb]
  /\ folderStatus = [f \in Folders |-> "pending"]
  /\ products = [id \in ProductIds |-> None]
  /\ importLogs = [p \in Procs |-> None]
  /\ proc = [p \in Procs |-> IdleProc(p)]
  /\ faults = 0
  /\ edits = 0
  /\ call = NoCall

\* Spec: an import of folder A and an import of folder B, their steps
\* interleaved, with collaborators that may throw.
Init ==
  /\ Start0
  /\ scenario = [requests |-> Procs, faults |-> MaxFaults, edits |-> 0]

Next == \E p \in Procs : Import(p)

Spec == Init /\ [][Next]_vars

\* SpecEdit: an import of folder A with collaborators that do not throw,
\* and fee and item requests at any moment before, during and after it.
InitEdit ==
  /\ Start0
  /\ scenario = [requests |-> {"r1"}, faults |-> 0, edits |-> MaxEdits]

Edit ==
  \/ \E r \in Procs, body \in FeeBodies : FeeEdit(r, body)
  \/ \E id \in ProductIds, a \in Folders : ItemCreate(id, 10, 0, a)
  \/ \E id \in ProductIds, body \in ItemBodies : ItemEdit(id, body)
  \/ \E id \in ProductIds : ItemDelete(id)
  \/ \E a \in Folders : DeleteByAuction(a)

NextEdit ==
  \/ \E p \in Procs : ImportSteps(p)
  \/ Edit

SpecEdit == InitEdit /\ [][NextEdit]_vars

\* SpecRace: two import requests for folder A, their steps interleaved, with
\* collaborators that do not throw. route.ts 36-52 reads the folder and
\* marks it as being processed whatever its status, so that a second
\* request for a folder under import runs as the first does.
InitRace ==
  /\ supplier \in [name : SupplierNames, parserConfig : ParserConfigs]
  /\ \E la \in ListingsA(supplier.name), lb \in ListingsB(supplier.name) :
       listing = [f \in Folders |-> IF f = "A" THEN la ELSE lb]
  /\ folderStatus = [f \in Folders |-> "pending"]
  /\ products = [id \in ProductIds |-> None]
  /\ importLogs = [p \in Procs |-> None]
  /\ proc = [p \in Procs |-> [IdleProc(p) EXCEPT !.folder = "A"]]
  /\ faults = 0
  /\ edits = 0
  /\ call = NoCall
  /\ scenario = [requests |-> Procs, faults |-> 0, edits |-> 0]

NextRace == \E p \in Procs : ImportSteps(p)

SpecRace == InitRace /\ [][NextRace]_vars

\* SpecNames: an import of folder A with collaborators that do not throw,
\* for the suppliers of KeywordNames.
InitNames ==
  /\ supplier \in [name : KeywordNames, parserConfig : ParserConfigs]
  /\ \E la \in ListingsA(supplier.name), lb \in ListingsB(supplier.name) :
       listing = [f \in Folders |-> IF f = "A" THEN la ELSE lb]
  /\ folderStatus = [f \in Folders |-> "pending"]
  /\ products = [id \in ProductIds |-> None]
  /\ importLogs = [p \in Procs |-> None]
  /\ proc = [p \in Procs |-> IdleProc(p)]
  /\ faults = 0
  /\ edits = 0
  /\ call = NoCall
  /\ scenario = [requests |-> {"r1"}, faults |-> 0, edits |-> 0]

NextNames == \E p \in Procs : ImportSteps(p)

SpecNames == InitNames /\ [][NextNames]_vars

(***************************************************************************)
(* SpecFn: one call of a function of the parsers; the rest stands still    *)
(***************************************************************************)

system == << supplier, listing, folderStatus, products, importLogs, proc, faults, edits,
             scenario >>

Item(purchasePrice, commission) == [purchasePrice |-> purchasePrice, commission |-> commission]

TaxTypes == {"included", "excluded"}

\* The line items, configurations and fees a call of the calculator is given
FnItems ==
  { << >>,
    << Item(100, 0) >>,
    << Item(5, 5), Item(5, 0) >>,
    << Item(50, 5), Item(50, 50) >>,
    << Item(10, 0), Item(40, 0) >> }

FnRoundings ==
  {None} \cup { Some(rc) : rc \in [calculationType : {"per_item", "subtotal", "total"},
                                    roundingMode : {"floor", "ceil", "round"}] }

FnConfigs ==
  [productPriceTaxType : TaxTypes, commissionTaxType : TaxTypes,
   taxRate : {None, Some(0), Some(8), Some(10)},
   participationFee : {None}, shippingFee : {None},
   roundingConfig : FnRoundings]

FnFees == {0, 5}

CalculatorCalls ==
  { [fn |-> "calculateInvoiceAmount", args |-> a, result |-> None] :
      a \in [items : FnItems, config : FnConfigs,
             participationFee : FnFees, participationFeeTaxType : TaxTypes,
             shippingFee : FnFees, shippingFeeTaxType : TaxTypes] }

\* The configurations, with and without fees, and the fee columns of an
\* ImportLog that the handlers' computations of systemAmount are given
PathConfigs ==
  { [c EXCEPT !.participationFee = f] :
      c \in FnConfigs, f \in {None, Some(Fee(5, "excluded"))} }

PathLogs ==
  [participationFee : {None, Some(5)}, participationFeeTaxType : {None, Some("excluded")},
   shippingFee : {None}, shippingFeeTaxType : {None}]

SystemAmountCalls ==
  { [fn |-> "importSystemAmount", args |-> a, result |-> None] :
      a \in [items : FnItems, config : PathConfigs] }
  \cup
  { [fn |-> "recomputeSystemAmount", args |-> a, result |-> None] :
      a \in [items : FnItems, config : PathConfigs, log : PathLogs] }

\* The values (scaled: 123450 is 1234.5) and modes applyRounding is given;
\* "truncate" is a mode it does not know
FnValues == (-250 .. 250) \cup {123450, 123401, 123499, -123450, -123401, -123499}

FnModes == {"floor", "ceil", "round", "truncate"}

RoundingCalls ==
  { [fn |-> "applyRounding", args |-> a, result |-> None] :
      a \in [value : FnValues, mode : FnModes] }

\* The MIME types and supplier names getParser is given: a name holds at
\* most two of the words
FnMimeTypes ==
  { "csv", "text/csv", "TEXT/CSV", "pdf", "application/pdf", "Application/PDF",
    "application/vnd.ms-excel", "image/png" }

FnWords ==
  { "daikichi", "DAIKICHI", "ja:daikichi", "otakaraya", "ja:otakaraya", "ecoring", "Ecoring",
    "timeless", "ja:timeless", "apre", "Apre", "ja:apre", "revaauc", "ja:ribaoku",
    "ja:rebaoku", "ore", "ORE", "ja:ore", "store", "acme" }

FnNames == { n \in SUBSET FnWords : Cardinality(n) <= 2 }

SelectorCalls ==
  { [fn |-> "getParser", args |-> a, result |-> None] :
      a \in [fileType : FnMimeTypes, supplierName : FnNames] }

\* The values normalizePrice is given: numbers, strings of at most MaxLen
\* characters, and a value that is neither
FnChars == {"0", "1", "5", ",", "yen", "wide-yen", "en", " ", "x", "-"}

RECURSIVE StringsUpTo(_)
StringsUpTo(n) ==
  IF n = 0 THEN { << >> }
  ELSE LET shorter == StringsUpTo(n - 1) IN
       shorter \cup { Append(str, c) : str \in {t \in shorter : Len(t) = n - 1}, c \in FnChars }

FnPrices ==
  { [type |-> "number", number |-> n] : n \in {-5, 0, 1, 1500} }
  \cup { [type |-> "string", chars |-> str] : str \in StringsUpTo(MaxLen) }
  \cup { [type |-> "other"] }

NormalizeCalls ==
  { [fn |-> "normalizePrice", args |-> [value |-> v], result |-> None] : v \in FnPrices }

\* The records a CSV parser is given: at most two, with or without a
\* product number and a name, and a price cell
FnCells == { << >>, << "1", "5" >>, << "-", "5" >>, << "x" >>, << "yen", "1", "5" >> }

FnRecords == [productId : {"", "7"}, name : {"", "bag"}, purchasePrice : FnCells]

FnFiles == { << >> } \cup { << a >> : a \in FnRecords } \cup { << a, b >> : a, b \in FnRecords }

ExtractorCalls ==
  { [fn |-> f, args |-> [records |-> file], result |-> None] :
      f \in {"CSVParser.parse", "TimelessParser.parseCSV"}, file \in FnFiles }

\* A number in decimal digits, and a price with its commas
RECURSIVE Decimal(_)
Decimal(n) ==
  IF n < 10 THEN << Digits[n + 1] >> ELSE Decimal(n \div 10) \o << Digits[(n % 10) + 1] >>

RECURSIVE Grouped(_)
Grouped(n) ==
  IF n < 1000 THEN Decimal(n)
  ELSE Grouped(n \div 1000)
       \o << ",", Digits[((n \div 100) % 10) + 1], Digits[((n \div 10) % 10) + 1],
              Digits[(n % 10) + 1] >>

\* The token that an Apre items PDF prints for one piece of an item
Token(no, price) == << "1" >> \o Decimal(no) \o Grouped(price)

\* The tokens parseNoAndPrice is given: items of these numbers and prices,
\* after the item before them or as the first item read
FnNos == {1, 2, 5, 9, 10, 12, 22, 99}

FnTokenPrices == {5000, 7000, 9000, 25500, 29000, 100000, 125000, 1000000}

TokenCalls ==
  { [fn |-> "parseNoAndPrice",
     args |-> [noAndPrice |-> Token(no, price), previousNo |-> previous],
     result |-> None] :
      no \in FnNos, price \in FnTokenPrices, previous \in {0} \cup {n - 1 : n \in FnNos} }

Calls ==
  CalculatorCalls \cup SystemAmountCalls \cup RoundingCalls \cup SelectorCalls
  \cup NormalizeCalls \cup ExtractorCalls \cup TokenCalls

\* The call returns v
Return(v) == call' = [call EXCEPT !.result = Some(v)]

Pending(fn) == call.fn = fn /\ call.result = None

Calculate ==
  /\ Pending("calculateInvoiceAmount")
  /\ Return(calculateInvoiceAmount(call.args.items, call.args.config,
                                   call.args.participationFee,
                                   call.args.participationFeeTaxType,
                                   call.args.shippingFee, call.args.shippingFeeTaxType))
  /\ UNCHANGED system

\* The computation of systemAmount of the import handler and of the
\* recomputing handlers, on their own
ImportAmount ==
  /\ Pending("importSystemAmount")
  /\ Return(ImportSystemAmount(call.args.items, call.args.config))
  /\ UNCHANGED system

RecomputeAmount ==
  /\ Pending("recomputeSystemAmount")
  /\ Return(RecomputeSystemAmount(call.args.items, call.args.config, call.args.log))
  /\ UNCHANGED system

Round ==
  /\ Pending("applyRounding")
  /\ Return(applyRounding(call.args.value, call.args.mode))
  /\ UNCHANGED system

Select ==
  /\ Pending("getParser")
  /\ Return(getParser(call.args.fileType, call.args.supplierName))
  /\ UNCHANGED system

Normalize ==
  /\ Pending("normalizePrice")
  /\ Return(normalizePrice(call.args.value))
  /\ UNCHANGED system

ParseCsv ==
  /\ Pending("CSVParser.parse")
  /\ Return(CSVParserParse(call.args.records))
  /\ UNCHANGED system

ParseTimelessCsv ==
  /\ Pending("TimelessParser.parseCSV")
  /\ Return(TimelessParseCSV(call.args.records))
  /\ UNCHANGED system

ParseNoAndPrice ==
  /\ Pending("parseNoAndPrice")
  /\ Return(parseNoAndPrice(call.args.noAndPrice, call.args.previousNo))
  /\ UNCHANGED system

InitFn ==
  /\ supplier = [name |-> {"daikichi"}, parserConfig |-> None]
  /\ listing = [f \in Folders |-> << >>]
  /\ folderStatus = [f \in Folders |-> "pending"]
  /\ products = [id \in ProductIds |-> None]
  /\ importLogs = [p \in Procs |-> None]
  /\ proc = [p \in Procs |-> IdleProc(p)]
  /\ faults = 0
  /\ edits = 0
  /\ scenario = [requests |-> {}, faults |-> 0, edits |-> 0]
  /\ call \in Calls

NextFn ==
  \/ Calculate
  \/ ImportAmount
  \/ RecomputeAmount
  \/ Round
  \/ Select
  \/ Normalize
  \/ ParseCsv
  \/ ParseTimelessCsv
  \/ ParseNoAndPrice

SpecFn == InitFn /\ [][NextFn]_vars

(***************************************************************************)
(* Properties                                                              *)
(***************************************************************************)

Logs == {r \in Procs : IsSome(importLogs[r])}
Log(r) == Val(importLogs[r])

\* The runs whose final importLog.update has been written (route.ts 548-561)
Finalized == {p \in Procs : Local(p).pc \in {"finalFolder", "returned"}}

\* C1: in every persisted verdict with an invoiceAmount and a systemAmount,
\* amountDifference is |invoiceAmount - systemAmount| and hasAmountMismatch
\* is true exactly when that difference is 1 or more.
C1_VerdictConsistent ==
  \A r \in Logs :
    IsSome(Log(r).invoiceAmount) /\ IsSome(Log(r).systemAmount) =>
      LET d == Abs(Val(Log(r).invoiceAmount) - Val(Log(r).systemAmount)) IN
      /\ Log(r).amountDifference = Some(d)
      /\ Log(r).hasAmountMismatch = (d >= 1)

\* A fee or item request has recomputed a verdict whose amounts differ by
\* exactly 1: it is a mismatch.
C1_Witness ==
  \E r \in Logs :
    /\ edits > 0
    /\ IsSome(Log(r).invoiceAmount) /\ IsSome(Log(r).systemAmount)
    /\ Abs(Val(Log(r).invoiceAmount) - Val(Log(r).systemAmount)) = 1
    /\ Log(r).hasAmountMismatch

\* C2: a finalized run without invoiceAmount is flagged as a mismatch, after
\* the import and after every later request.
C2_NoInvoiceIsMismatch ==
  \A p \in Procs :
    Local(p).pc = "returned" /\ ~IsSome(Log(p).invoiceAmount) =>
      Log(p).hasAmountMismatch

C3_StatusRule ==
  \A p \in Procs :
    /\ Local(p).pc \in {"idle", "createLog"} => ~IsSome(importLogs[p])
    /\ Local(p).pc \in {"listFiles", "csv", "csvFind", "csvWrite", "csvDoc",
                        "pdf", "pdfFind", "pdfWrite", "pdfDoc", "ref", "verdict",
                        "finalLog"} => Log(p).status = "processing"
    /\ p \in Finalized =>
         Log(p).status = IF Log(p).itemsFailed > 0 /\ Log(p).itemsSuccess = 0 THEN "error"
                         ELSE IF Log(p).itemsFailed > 0 THEN "partial"
                         ELSE "success"
    /\ Local(p).pc = "failed" /\ IsSome(importLogs[p]) => Log(p).status = "error"

C3_NeverBackToProcessing ==
  \A r \in Procs :
    IsSome(importLogs[r]) /\ Log(r).status # "processing" =>
      IsSome(importLogs'[r]) /\ Val(importLogs'[r]).status # "processing"

ItemsPdfYield(file, supplierName) ==
  IF IsOre(supplierName) THEN None
  ELSE Parse(getParser(file.mimeType, supplierName), file, "buffer").invoiceSummary

RefYield(file, supplierName) ==
  IF IsInvoicePdf(file.name) THEN extractInvoiceSummary(file, supplierName) ELSE None

\* The priority of a reference PDF: the lower the earlier
RefRank(file, supplierName) ==
  (IF IsApre(supplierName) /\ IsTargetName(toLowerCase(file.name)) THEN 0 ELSE 2)
  + (IF IsInvoiceName(toLowerCase(file.name)) THEN 0 ELSE 1)

FirstItemsPdfYield(pdfs, supplierName) ==
  LET Y == {k \in 1..Len(pdfs) : IsSome(ItemsPdfYield(pdfs[k], supplierName))}
  IN IF Y = {} THEN None
     ELSE ItemsPdfYield(pdfs[CHOOSE k \in Y : \A m \in Y : k <= m], supplierName)

FirstRefYield(refs, supplierName) ==
  LET Y == {k \in 1..Len(refs) : IsSome(RefYield(refs[k], supplierName))}
      Before(k, m) ==
        \/ RefRank(refs[k], supplierName) < RefRank(refs[m], supplierName)
        \/ RefRank(refs[k], supplierName) = RefRank(refs[m], supplierName) /\ k <= m
  IN IF Y = {} THEN None
     ELSE RefYield(refs[CHOOSE k \in Y : \A m \in Y : Before(k, m)], supplierName)

\* The first total in the order CSV files, items PDFs, reference PDFs by
\* priority; for Apre a reference PDF's total replaces an items PDF's
FirstYield(files, supplierName) ==
  LET items == FirstItemsPdfYield(productPdfFilesOf(files, supplierName), supplierName)
      ref == FirstRefYield(referencePdfFilesOf(files, supplierName), supplierName)
  IN IF IsApre(supplierName) THEN (IF IsSome(ref) THEN ref ELSE items)
     ELSE IF IsSome(items) THEN items ELSE ref

C5_FirstWins ==
  \A p \in Finalized :
    faults = 0 => Log(p).invoiceAmount = FirstYield(Files(p), supplier.name)

C5_NoOverwrite ==
  \A p \in Procs :
    IsSome(Local(p).results.invoiceAmount) /\ ~IsApre(supplier.name) =>
      proc'[p].results.invoiceAmount = Local(p).results.invoiceAmount

\* C5: when no collaborator throws, the invoiceAmount of a finalized run is
\* the total of the first document, in the order CSV files, items PDFs,
\* reference PDFs by priority, that yields one, and no later document of the
\* run overwrites it (except for Apre, where a reference PDF's total
\* replaces an items PDF's).
C5_FirstSummaryWins ==
  []C5_FirstWins /\ [][C5_NoOverwrite]_vars

\* A run of two items PDFs that both print a total has kept the first one.
C5_Witness ==
  \E p \in Procs :
    /\ Local(p).pc = "returned" /\ faults = 0
    /\ ~IsApre(supplier.name)
    /\ Len(productPdfFiles(p)) = 2
    /\ \A k \in 1..2 : IsSome(ItemsPdfYield(productPdfFiles(p)[k], supplier.name))
    /\ Log(p).invoiceAmount = ItemsPdfYield(productPdfFiles(p)[1], supplier.name)
    /\ Log(p).invoiceAmount # ItemsPdfYield(productPdfFiles(p)[2], supplier.name)

\* The verdict columns of a log
VerdictOf(row) ==
  [systemAmount |-> row.systemAmount, amountDifference |-> row.amountDifference,
   hasAmountMismatch |-> row.hasAmountMismatch]

\* The log of run r after a step
LogAfter(r) == Val(importLogs'[r])

\* C6: a fee request that leaves the run without any override recomputes,
\* from the persisted items of the run and the supplier's configuration,
\* the verdict that the import computes from the same items, configuration
\* and invoiceAmount.
C6_RecomputeAsImport ==
  [][ \A r \in Procs, body \in FeeBodies :
        LET items == ProductsOfAuction(products, folderOf[r]) IN
        ( /\ FeeEdit(r, body)
          /\ Local(r).pc = "returned"
          /\ IsSome(supplier.parserConfig)
          /\ Len(items) > 0
          /\ ~IsSome(LogAfter(r).participationFee) /\ ~IsSome(LogAfter(r).shippingFee) )
        => VerdictOf(LogAfter(r))
             = ImportVerdict(items, supplier.parserConfig, Log(r).invoiceAmount) ]_vars

\* C7: when no collaborator throws, the systemAmount of a finalized run of a
\* supplier with a configuration is calculateInvoiceAmount over the items
\* that the files of the run yielded, with the supplier's fees.
C7_SystemAmountIsCalculator ==
  \A p \in Finalized :
    faults = 0 /\ IsSome(supplier.parserConfig) =>
      LET config == Val(supplier.parserConfig)
          pFee == ImportFee(config.participationFee)
          sFee == ImportFee(config.shippingFee)
      IN Log(p).systemAmount =
           Some(calculateInvoiceAmount(Local(p).acc, config, pFee.amount, pFee.taxType,
                                       sFee.amount, sFee.taxType))

\* The effective fee of a run: the override when the run has one, else the
\* supplier's fee, else nothing
EffectiveFee(logFee, logFeeTaxType, configFee) ==
  CASE logFee # None ->
         [amount |-> Val(logFee),
          taxType |-> IF logFeeTaxType # None THEN Val(logFeeTaxType) ELSE "included"]
    [] logFee = None /\ configFee # None -> Val(configFee)
    [] OTHER -> [amount |-> 0, taxType |-> "included"]

\* The systemAmount of a log over some items with the effective fees
SystemAmountWith(row, items, config) ==
  FlooredTotal(items, config, RecomputeTaxRate(config),
               EffectiveFee(row.participationFee, row.participationFeeTaxType,
                            config.participationFee),
               EffectiveFee(row.shippingFee, row.shippingFeeTaxType, config.shippingFee))

C8_FeeEditStep ==
  \A r \in Logs :
    LET items == ProductsOfAuction(products, folderOf[r]) IN
    ( /\ products' = products
      /\ IsSome(supplier.parserConfig) /\ Len(items) > 0
      /\ \E body \in FeeBodies :
           /\ LogAfter(r).participationFee = WithFees(Log(r), body).participationFee
           /\ LogAfter(r).shippingFee = WithFees(Log(r), body).shippingFee
           /\ FeeEdit(r, body) )
    => LogAfter(r).systemAmount
         = Some(SystemAmountWith(LogAfter(r), items, Val(supplier.parserConfig)))

C8_ItemCreateStep ==
  \A id \in ProductIds :
    ~IsSome(products[id]) /\ IsSome(products'[id]) =>
      \A r \in LogsOfAuction(Val(products'[id]).auctionName) :
        ItemCreate(id, 10, 0, folderOf[r]) =>
          LogAfter(r).systemAmount
            = Some(SystemAmountWith(LogAfter(r), ProductsOfAuction(products', folderOf[r]),
                                    ConfigOrUndefined(supplier.parserConfig)))

C8_ItemEditStep ==
  \A id \in ProductIds :
    IsSome(products[id]) /\ IsSome(products'[id]) /\ IsSome(supplier.parserConfig) =>
      \A r \in LogsOfAuction(Val(products[id]).auctionName) :
        ( \E body \in ItemBodies :
            /\ Given(body.purchasePrice) \/ Given(body.commission)
            /\ ItemEdit(id, body) )
        => LogAfter(r).systemAmount
             = Some(SystemAmountWith(LogAfter(r), ProductsOfAuction(products', folderOf[r]),
                                     Val(supplier.parserConfig)))

C8_RecomputingStep ==
  edits' = edits + 1 => C8_FeeEditStep /\ C8_ItemCreateStep /\ C8_ItemEditStep

\* C8: every recomputation (fee request, item creation, item change) totals
\* the run with, for each of the two fees, the run's override (amount and
\* tax type) when the run's fee is non-null, an amount of 0 included,
\* otherwise the supplier's fee when it is set, otherwise 0 tax included.
C8_FeeResolution ==
  [][C8_RecomputingStep]_vars

\* A run of a supplier with a participation fee has been recomputed with an
\* override of 0, and its total is the one without any participation fee.
C8_Witness ==
  \E r \in Logs :
    LET items == ProductsOfAuction(products, folderOf[r]) IN
    /\ edits > 0
    /\ IsSome(supplier.parserConfig)
    /\ IsSome(Val(supplier.parserConfig).participationFee)
    /\ Log(r).participationFee = Some(0)
    /\ Len(items) > 0
    /\ Log(r).systemAmount
         = Some(FlooredTotal(items, Val(supplier.parserConfig),
                             RecomputeTaxRate(Val(supplier.parserConfig)),
                             [amount |-> 0, taxType |-> "included"],
                             ImportFee(Val(supplier.parserConfig).shippingFee)))
    /\ Log(r).systemAmount
         # Some(FlooredTotal(items, Val(supplier.parserConfig),
                             RecomputeTaxRate(Val(supplier.parserConfig)),
                             Val(Val(supplier.parserConfig).participationFee),
                             ImportFee(Val(supplier.parserConfig).shippingFee)))

\* C9: a fee request that overrides the participation fee of a finalized run
\* changes no product, and leaves as systemAmount the total of the same
\* items with the supplier's tax rate and shipping fee and the new
\* participation fee, with amountDifference and hasAmountMismatch derived
\* from it.
C9_OverrideChangesFeeOnly ==
  [][ \A r \in Procs, body \in FeeBodies :
        ( /\ FeeEdit(r, body)
          /\ Local(r).pc = "returned"
          /\ IsSome(supplier.parserConfig)
          /\ IsSome(Log(r).systemAmount)
          /\ Given(body.participationFee) /\ IsSome(Val(body.participationFee))
          /\ ~Given(body.shippingFee) /\ ~IsSome(Log(r).shippingFee) )
        => LET config == Val(supplier.parserConfig)
               sys == FlooredTotal(ProductsOfAuction(products, folderOf[r]), config,
                                   ImportTaxRate(config),
                                   EffectiveFee(LogAfter(r).participationFee,
                                                LogAfter(r).participationFeeTaxType,
                                                config.participationFee),
                                   ImportFee(config.shippingFee))
           IN /\ products' = products
              /\ LogAfter(r).systemAmount = Some(sys)
              /\ IsSome(Log(r).invoiceAmount) =>
                   /\ LogAfter(r).amountDifference
                        = Some(Abs(Val(Log(r).invoiceAmount) - sys))
                   /\ LogAfter(r).hasAmountMismatch
                        = (Abs(Val(Log(r).invoiceAmount) - sys) >= 1) ]_vars

\* C10: no step of an import moves a persisted product to another auction,
\* changes it or removes it unless the product is of the importing run's own
\* auction.
C10_BatchesOwnTheirItems ==
  [][ \A p \in Procs, id \in ProductIds :
        ( /\ proc'[p] # proc[p]
          /\ IsSome(products[id])
          /\ Val(products[id]).auctionName # folderOf[p] )
        => products'[id] = products[id] ]_vars

(***************************************************************************)
(* The calculator as a function (SpecFn)                                   *)
(***************************************************************************)

Returned(fn) == call.fn = fn /\ IsSome(call.result)

\* The reference definition of the invoice amount, in exact arithmetic:
\* a scaled value rounded to yen ...
Rounded(v, mode) ==
  IF mode = "ceil" THEN (v + 99) \div 100
  ELSE IF mode = "round" THEN (2 * v + 100) \div 200
  ELSE (v - (v % 100)) \div 100

\* ... a component in tax-included form, scaled ...
Converted(x, taxType, rate) ==
  IF taxType = "excluded" THEN 100 * x + rate * x ELSE 100 * x

\* ... converted and rounded on its own
ConvertedAndRounded(x, taxType, rate, mode) ==
  IF taxType = "excluded" THEN Rounded(Converted(x, taxType, rate), mode) ELSE x

RECURSIVE SumSeq(_)
SumSeq(s) == IF s = << >> THEN 0 ELSE Head(s) + SumSeq(Tail(s))

ReferenceAmount(a) ==
  LET rate == IF IsSome(a.config.taxRate) THEN Val(a.config.taxRate) ELSE 10
      rc == IF IsSome(a.config.roundingConfig) THEN Val(a.config.roundingConfig)
            ELSE [calculationType |-> "total", roundingMode |-> "floor"]
      mode == rc.roundingMode
      pt == a.config.productPriceTaxType
      ct == a.config.commissionTaxType
      n == Len(a.items)
      prices == [i \in 1..n |-> a.items[i].purchasePrice]
      commissions == [i \in 1..n |-> a.items[i].commission]
      perItem == [i \in 1..n |-> ConvertedAndRounded(prices[i], pt, rate, mode)
                                + ConvertedAndRounded(commissions[i], ct, rate, mode)]
      feesRounded == ConvertedAndRounded(a.participationFee, a.participationFeeTaxType, rate, mode)
                   + ConvertedAndRounded(a.shippingFee, a.shippingFeeTaxType, rate, mode)
  IN
  CASE rc.calculationType = "per_item" -> SumSeq(perItem) + feesRounded
    [] rc.calculationType = "subtotal" ->
         ConvertedAndRounded(SumSeq(prices), pt, rate, mode)
       + ConvertedAndRounded(SumSeq(commissions), ct, rate, mode)
       + feesRounded
    [] OTHER ->
         Rounded( Converted(SumSeq(prices), pt, rate)
                + Converted(SumSeq(commissions), ct, rate)
                + Converted(a.participationFee, a.participationFeeTaxType, rate)
                + Converted(a.shippingFee, a.shippingFeeTaxType, rate), mode)

\* C11: calculateInvoiceAmount returns the reference amount for every
\* input: per_item converts and rounds each item's price and commission on
\* its own, subtotal each subtotal once, total rounds the grand sum once,
\* and the fees are converted as the mode prescribes.
C11_CalculatorIsReference ==
  Returned("calculateInvoiceAmount") => Val(call.result) = ReferenceAmount(call.args)


\* A configuration with its absent taxRate and roundingConfig written out
Defaulted(config) ==
  [config EXCEPT
     !.taxRate = IF IsSome(@) THEN @ ELSE Some(10),
     !.roundingConfig = IF IsSome(@) THEN @
                        ELSE Some([calculationType |-> "total", roundingMode |-> "floor"])]

\* C12: a configuration without roundingConfig is computed as with
\* {total, floor} and one without taxRate as with 0.10, and the call
\* returns a number, on the calculator, on the import handler's computation
\* of systemAmount and on the recomputing handlers'.
C12_AbsentMeansDefault ==
  /\ Returned("calculateInvoiceAmount") =>
        Val(call.result) =
          calculateInvoiceAmount(call.args.items, Defaulted(call.args.config),
                                 call.args.participationFee,
                                 call.args.participationFeeTaxType,
                                 call.args.shippingFee, call.args.shippingFeeTaxType)
  /\ Returned("importSystemAmount") =>
        Val(call.result) = ImportSystemAmount(call.args.items, Defaulted(call.args.config))
  /\ Returned("recomputeSystemAmount") =>
        Val(call.result) =
          RecomputeSystemAmount(call.args.items, Defaulted(call.args.config), call.args.log)
  /\ (call.fn \in {"calculateInvoiceAmount", "importSystemAmount", "recomputeSystemAmount"}
        /\ IsSome(call.result)) => Val(call.result) \in Int

\* The calculator has returned for a configuration with neither taxRate nor
\* roundingConfig whose prices carry tax to add
C12_Witness ==
  /\ Returned("calculateInvoiceAmount")
  /\ ~IsSome(call.args.config.taxRate) /\ ~IsSome(call.args.config.roundingConfig)
  /\ call.args.config.productPriceTaxType = "excluded"
  /\ SumPrice(call.args.items) = 10
  /\ Val(call.result) = 11 + SumCommission(call.args.items)
                            + call.args.participationFee + call.args.shippingFee

\* The rounding the specification describes, of a scaled value: the whole
\* yen below, the whole yen above, or the nearest with a half going away
\* from zero
IsWhole(v) == v % 100 = 0
YenBelow(v) == CHOOSE n \in (v \div 100 - 1) .. (v \div 100 + 1) : 100 * n <= v /\ v < 100 * (n + 1)
YenAbove(v) == IF IsWhole(v) THEN YenBelow(v) ELSE YenBelow(v) + 1
HalfAwayFromZero(v) ==
  IF v >= 0 THEN YenBelow(v + 50) ELSE -YenBelow(-v + 50)

StatedRounding(v, mode) ==
  CASE mode = "floor" -> YenBelow(v)
    [] mode = "ceil" -> YenAbove(v)
    [] mode = "round" -> HalfAwayFromZero(v)
    [] OTHER -> YenBelow(v)

\* C13: applyRounding returns the floor for floor, the ceiling for ceil,
\* the nearest integer with .5 going away from zero for round, for negative
\* as well as positive values, and the floor for an unknown mode;
\* 1234.5/round is 1235, 1234.01/ceil is 1235, 1234.99/floor is 1234.
C13_RoundingAsStated ==
  Returned("applyRounding") =>
    /\ Val(call.result) = StatedRounding(call.args.value, call.args.mode)
    /\ (call.args.value = 123450 /\ call.args.mode = "round") => Val(call.result) = 1235
    /\ (call.args.value = 123401 /\ call.args.mode = "ceil") => Val(call.result) = 1235
    /\ (call.args.value = 123499 /\ call.args.mode = "floor") => Val(call.result) = 1234

(***************************************************************************)
(* The Selector (SpecFn)                                                   *)
(***************************************************************************)

\* The media types that are csv-like and pdf-like, and the words that hold
\* a known variant of each supplier's name, in any case
CsvLike == {"csv", "text/csv", "TEXT/CSV"}
PdfLike == {"pdf", "application/pdf", "Application/PDF"}

VariantsOf ==
  [ DaikichiParser |-> {"daikichi", "DAIKICHI", "ja:daikichi"},
    OtakarayaParser |-> {"otakaraya", "ja:otakaraya"},
    EcoringParser |-> {"ecoring", "Ecoring"},
    TimelessParser |-> {"timeless", "ja:timeless"},
    ApreParser |-> {"apre", "Apre", "ja:apre"},
    RevaAucParser |-> {"revaauc", "ja:ribaoku", "ja:rebaoku"},
    OreParser |-> {"ore", "ORE", "ja:ore", "store"} ]

\* The first extractor of the order whose variants the name holds, else
\* the generic one
RECURSIVE FirstMatch(_, _, _)
FirstMatch(order, name, generic) ==
  IF order = << >> THEN generic
  ELSE IF name \cap VariantsOf[Head(order)] # {} THEN Head(order)
  ELSE FirstMatch(Tail(order), name, generic)

ExpectedExtractor(mediaType, name) ==
  IF mediaType \in CsvLike THEN
    FirstMatch(<< "DaikichiParser", "OtakarayaParser", "EcoringParser", "TimelessParser" >>,
               name, "CSVParser")
  ELSE IF mediaType \in PdfLike THEN
    FirstMatch(<< "ApreParser", "RevaAucParser", "OreParser", "TimelessParser" >>,
               name, "PDFParser")
  ELSE "unsupported"

\* C14: for a csv-like media type the Selector returns the Daikichi,
\* Otakaraya, Ecoring or Timeless extractor by the first case-insensitive
\* substring match of the supplier name, else the generic CSV extractor;
\* for a pdf-like one Apre, RevaAuc, Ore or Timeless by first match, else
\* the generic PDF extractor; for any other media type it fails with the
\* unsupported-format error.
C14_SelectorDispatch ==
  Returned("getParser") =>
    Val(call.result) = ExpectedExtractor(call.args.fileType, call.args.supplierName)

\* The Selector has chosen by the first match, for a name in upper case that
\* holds a later variant too, and has refused a media type
C14_Witness ==
  /\ Returned("getParser")
  /\ \/ /\ call.args.fileType = "TEXT/CSV"
        /\ call.args.supplierName = {"DAIKICHI", "ja:timeless"}
        /\ Val(call.result) = "DaikichiParser"
     \/ /\ call.args.fileType = "Application/PDF"
        /\ call.args.supplierName = {"ORE", "timeless"}
        /\ Val(call.result) = "OreParser"

(***************************************************************************)
(* The Normalizer and the extractors (SpecFn)                              *)
(***************************************************************************)

\* The price the specification describes: the string without its commas,
\* yen signs of both forms and kanji for yen, trimmed, read as a number
Stripped(str) == SelectSeq(str, LAMBDA c : c \notin {",", "yen", "wide-yen", "en"})

StatedPrice(value) ==
  CASE value.type = "number" -> value.number
    [] value.type = "string" ->
         LET parsed == parseFloat(Trim(Stripped(value.chars))) IN
         IF IsSome(parsed) THEN Val(parsed) ELSE 0
    [] OTHER -> 0

\* C19: normalizePrice returns a number as it is; of a string it strips
\* every comma, every yen sign of both forms and the kanji for yen, trims
\* and parses the rest as a float; it returns 0 for empty or unparseable
\* input and never throws.
C19_NormalizePrice ==
  Returned("normalizePrice") => Val(call.result) = StatedPrice(call.args.value)

\* A record the specification accepts: it has a name and a price that is
\* a number not below 0
WellFormed(record) ==
  /\ record.name # ""
  /\ LET price == StatedPrice([type |-> "string", chars |-> record.purchasePrice])
     IN price >= 0

\* C18: every line item an extractor returns has a non-empty name and a
\* purchasePrice that is a finite number not below zero; a row that fails
\* this is dropped and the rest of the file is still parsed.
C18_OnlyWellFormedItems ==
  (Returned("CSVParser.parse") \/ Returned("TimelessParser.parseCSV")) =>
    LET items == Val(call.result)
        records == call.args.records
        kept == SelectSeq(records, WellFormed)
    IN
    /\ \A k \in 1..Len(items) : items[k].name # "" /\ items[k].purchasePrice >= 0
    /\ call.fn = "CSVParser.parse" =>
         /\ Len(items) = Len(kept)
         /\ \A k \in 1..Len(items) : items[k].name = kept[k].name

(***************************************************************************)
(* Failures inside a run (Spec)                                            *)
(***************************************************************************)

\* The Selector has refused a file of the run: the file is in the run's
\* error list, and no collaborator has thrown
SelectorRefused(errors) ==
  /\ faults = 0
  /\ \E k \in 1..Len(errors) : errors[k] = "csvOdd"

\* C15: a run in which the Selector raised the unsupported-format error is
\* aborted: it processes no later file and ends in status error.
C15_UnsupportedAborts ==
  /\ \A p \in Procs :
       SelectorRefused(Local(p).results.errors) =>
         Local(p).pc \notin {"csvFind", "csvWrite", "csvDoc", "pdf", "ref", "verdict"}
  /\ \A r \in Finalized :
       (r \in Logs /\ SelectorRefused(Log(r).errorDetails)) =>
         Log(r).status = "error" /\ Log(r).itemsProcessed = 0

\* The number of line items a file yields to the run that reaches it
CsvYield(file) ==
  LET res == Parse(getParser(file.mimeType, supplier.name), file, "buffer") IN
  IF res.ok THEN Len(res.products) ELSE 0

PdfYield(p, file) ==
  LET res == Parse(getParser(file.mimeType, supplier.name), file,
                   IF IsOre(supplier.name) THEN "text" ELSE "buffer")
  IN
  IF IsOre(supplier.name) /\ file.id \notin Local(p).extractedTexts THEN 0
  ELSE IF res.ok THEN Len(res.products) ELSE 0

\* The line items of all the files of the run
ExpectedItems(p) ==
    SumSeq([k \in 1..Len(csvFiles(p)) |-> CsvYield(csvFiles(p)[k])])
  + SumSeq([k \in 1..Len(productPdfFiles(p)) |-> PdfYield(p, productPdfFiles(p)[k])])

\* The files of the run that no parser reads
Unreadable(p) ==
  { csvFiles(p)[k].id : k \in {n \in 1..Len(csvFiles(p)) : CsvYield(csvFiles(p)[n]) = 0} }

\* A step of run p that counts an item as failed: the item is entered in
\* the error list and the run is at the next item of the same file, or at
\* the file's document record after the last item
ItemFailureStep(p) ==
  LET l == Local(p)
      after == proc'[p]
  IN
  after.results.failed # l.results.failed =>
    /\ after.results.failed = l.results.failed + 1
    /\ after.results.errors = Append(l.results.errors, l.prods[l.j].productId)
    /\ after.results.processed = l.results.processed
    /\ after.results.success = l.results.success
    /\ after.i = l.i /\ after.prods = l.prods /\ after.j = l.j + 1
    /\ \E loop \in {"csv", "pdf"} :
         /\ l.pc \in {loop \o "Find", loop \o "Write"}
         /\ after.pc = IF after.j <= Len(l.prods) THEN loop \o "Find" ELSE loop \o "Doc"

\* In a finalized run whose only errors are failed items and unreadable
\* files, every item of every file was saved or counted as failed
AllItemsAccounted ==
  \A r \in Finalized :
    (r \in Logs /\ \A k \in 1..Len(Log(r).errorDetails) :
                     Log(r).errorDetails[k] \in ProductIds \cup Unreadable(r)) =>
      /\ Log(r).itemsProcessed = ExpectedItems(r)
      /\ Log(r).itemsSuccess + Log(r).itemsFailed = Log(r).itemsProcessed
      /\ Log(r).itemsFailed =
           Cardinality({k \in 1..Len(Log(r).errorDetails) :
                          Log(r).errorDetails[k] \in ProductIds})

\* C16: a persistence failure for one line item is counted as one failed
\* item with an entry in the error list, and the remaining items of the file
\* and the remaining files of the run are still processed.
C16_ItemFailureGoesOn ==
  []AllItemsAccounted /\ [][\A p \in Procs : ItemFailureStep(p)]_vars

\* A run has been finalized whose first item failed to be saved and whose
\* two other items, one of them of a later file, were saved
C16_Witness ==
  \E r \in Finalized :
    /\ r \in Logs
    /\ Log(r).errorDetails = << "1" >>
    /\ Log(r).itemsFailed = 1 /\ Log(r).itemsSuccess = 2 /\ Log(r).itemsProcessed = 3
    /\ Log(r).status = "partial"

\* Run p is for the supplier whose items PDFs are read from the text the
\* client extracted, and the request brought no text
MissingText(p) ==
  /\ IsOre(supplier.name)
  /\ Local(p).pc # "idle"
  /\ Local(p).extractedTexts = {}
  /\ Len(productPdfFiles(p)) > 0

ItemsPdfIds(p) == { productPdfFiles(p)[k].id : k \in 1..Len(productPdfFiles(p)) }

Entries(errors) == { errors[k] : k \in 1..Len(errors) }

\* No item of an items PDF is read or saved, and when no collaborator
\* throws the run is finalized with the items of the CSV files and the
\* total of the reference PDFs (an item fails without a throw of a
\* collaborator when the other run has saved the same productId meanwhile)
SkippedAndFinalized(p) ==
  /\ Local(p).pc \notin {"pdfFind", "pdfWrite", "pdfDoc"}
  /\ Local(p).results.processed <= SumSeq([k \in 1..Len(csvFiles(p)) |-> CsvYield(csvFiles(p)[k])])
  /\ (p \in Finalized /\ p \in Logs /\ faults = 0) =>
       /\ Log(p).status = IF Log(p).itemsFailed = 0 THEN "success" ELSE "partial"
       /\ Log(p).itemsProcessed = ExpectedItems(p)
       /\ Log(p).itemsSuccess + Log(p).itemsFailed = Log(p).itemsProcessed
       /\ Log(p).invoiceAmount =
            FirstRefYield(referencePdfFilesOf(Files(p), supplier.name), supplier.name)

\* C17: when the request has no text for an items PDF of the supplier that
\* needs pre-extracted text, the file is skipped with none of its items
\* persisted, the condition is recorded for the run, the remaining files
\* are processed and the run is finalized normally.
C17_AsWritten ==
  \A p \in Procs :
    MissingText(p) =>
      /\ SkippedAndFinalized(p)
      /\ (p \in Finalized /\ p \in Logs) => ItemsPdfIds(p) \subseteq Entries(Log(p).errorDetails)

\* What holds instead: the file is skipped with none of its items
\* persisted, the remaining files are processed and the run is finalized
\* normally, and the run keeps no record of the skipped file.
SkipLeavesNoRecord ==
  \A p \in Procs :
    MissingText(p) =>
      /\ SkippedAndFinalized(p)
      /\ ItemsPdfIds(p) \cap Entries(Local(p).results.errors) = {}
      /\ (p \in Finalized /\ p \in Logs) =>
            ItemsPdfIds(p) \cap Entries(Log(p).errorDetails) = {}

(***************************************************************************)
(* The reference PDFs of a run (Spec)                                      *)
(***************************************************************************)

ItemsTotal(p) ==
  FirstItemsPdfYield(productPdfFilesOf(Files(p), supplier.name), supplier.name)

ReferenceTotal(p) ==
  FirstRefYield(referencePdfFilesOf(Files(p), supplier.name), supplier.name)

\* For Apre, when no collaborator throws: a total of a reference PDF
\* replaces the total of the items PDF, which remains when there is none
ApreReplaces ==
  \A p \in Finalized :
    (faults = 0 /\ IsApre(supplier.name) /\ IsSome(ItemsTotal(p))) =>
      Log(p).invoiceAmount =
        IF IsSome(ReferenceTotal(p)) THEN ReferenceTotal(p) ELSE ItemsTotal(p)

\* A step of run p that reads a reference PDF: it moves to the next one, or
\* takes the total of this one
ReadsReference(p) ==
  /\ Local(p).pc = "ref"
  /\ \/ proc'[p].pc = "ref" /\ proc'[p].i = Local(p).i + 1
     \/ proc'[p].results.invoiceAmount # Local(p).results.invoiceAmount

OthersScanWhileNull ==
  \A p \in Procs :
    (ReadsReference(p) /\ ~IsApre(supplier.name)) => ~IsSome(Local(p).results.invoiceAmount)

\* C20: for Apre, when the items PDF yields a total, the reference PDFs
\* are still scanned and a total read from one replaces it, and it remains
\* when no reference PDF yields one; for every other supplier the
\* reference PDFs are scanned only while invoiceAmount is still null.
C20_ApreOverride ==
  []ApreReplaces /\ [][OthersScanWhileNull]_vars

\* An Apre run has been finalized with the total of a reference PDF in the
\* place of the different total its items PDF printed
C20_Witness ==
  \E p \in Finalized :
    /\ faults = 0 /\ IsApre(supplier.name)
    /\ IsSome(ItemsTotal(p)) /\ IsSome(ReferenceTotal(p))
    /\ ItemsTotal(p) # ReferenceTotal(p)
    /\ Log(p).invoiceAmount = ReferenceTotal(p)

\* The place of a reference PDF in the listing of run p, and the file
RefIndex(p, id) ==
  CHOOSE k \in 1..Len(referencePdfFiles(p)) : referencePdfFiles(p)[k].id = id

RefOf(p, id) == referencePdfFiles(p)[RefIndex(p, id)]

\* The reference PDFs of run p that are taken for invoices by their names
InvoiceLike(p) ==
  { referencePdfFiles(p)[k].id :
      k \in {n \in 1..Len(referencePdfFiles(p)) :
               IsInvoicePdf(toLowerCase(referencePdfFiles(p)[n].name))} }

\* The priority the specification words: a detail or summary listing, then
\* an invoice keyword, then the rest
StatedRank(file, supplierName) ==
  IF IsTargetName(toLowerCase(file.name)) THEN 0
  ELSE IF IsInvoiceName(toLowerCase(file.name)) THEN 1
  ELSE 2

\* The reference PDFs run p has read so far are the first ones by rank, and
\* by place in the listing among those of one rank, and were read in that order
ScannedInOrder(p, Rank(_, _)) ==
  LET s == Local(p).scanned
      Before(a, b) ==
        \/ Rank(RefOf(p, a), supplier.name) < Rank(RefOf(p, b), supplier.name)
        \/ /\ Rank(RefOf(p, a), supplier.name) = Rank(RefOf(p, b), supplier.name)
           /\ RefIndex(p, a) < RefIndex(p, b)
  IN
  /\ \A k, m \in 1..Len(s) : k < m => Before(s[k], s[m])
  /\ \A k \in 1..Len(s) : \A id \in InvoiceLike(p) \ Entries(s) : Before(s[k], id)

\* C21, as the specification words it: the reference PDFs are scanned with
\* the detail or summary listings first, then the files with an invoice
\* keyword, then the remaining files, in listing order inside each group.
C21_AsWritten ==
  \A p \in Procs : faults = 0 => ScannedInOrder(p, StatedRank)

\* C21: when no collaborator throws the reference PDFs are scanned in this
\* order: for Apre the detail or summary listings first, those with an
\* invoice keyword before the others; then, and for every other supplier
\* from the start, the files with an invoice keyword, then the remaining
\* files; in listing order inside each group.
C21_PriorityScan ==
  \A p \in Procs : faults = 0 => ScannedInOrder(p, RefRank)

\* An Apre run has read the detail listing with an invoice keyword and then
\* the other detail listing, which the folder lists the other way round and
\* after two other PDFs, and has stopped there
C21_Witness ==
  \E p \in Finalized :
    /\ faults = 0 /\ IsApre(supplier.name)
    /\ Local(p).scanned = << "refBoth", "refListing" >>
    /\ RefIndex(p, "refListing") < RefIndex(p, "refBoth")

\* What the specification has a reference PDF yield: the total that the
\* supplier's own PDF extractor reads from it and, when that one yields
\* nothing, the total that the invoice-summary extractor reads
StatedRefYield(file, supplierName) ==
  LET structured == Parse(getParser(file.mimeType, supplierName), file, "buffer") IN
  IF structured.ok /\ IsSome(structured.invoiceSummary) THEN structured.invoiceSummary
  ELSE extractInvoiceSummary(file, supplierName)

\* C22: when the items files have yielded no total, each invoice-like
\* reference PDF is parsed with the supplier's own PDF extractor first and
\* with the invoice-summary extractor only if that yields nothing; the scan
\* stops at the first reference PDF that yields a total, which becomes the
\* run's invoiceAmount, and no later reference PDF is downloaded or parsed.
C22_TwoStageScan ==
  \A p \in Finalized :
    (faults = 0 /\ ~IsSome(ItemsTotal(p))) =>
      LET read == Local(p).scanned
          Yield(id) == StatedRefYield(RefOf(p, id), supplier.name)
      IN
      /\ \A k \in 1..(Len(read) - 1) : ~IsSome(Yield(read[k]))
      /\ IF \E id \in InvoiceLike(p) : IsSome(Yield(id))
         THEN /\ read # << >>
              /\ IsSome(Yield(read[Len(read)]))
              /\ Log(p).invoiceAmount = Yield(read[Len(read)])
         ELSE /\ Entries(read) = InvoiceLike(p)
              /\ Log(p).invoiceAmount = None

(***************************************************************************)
(* Documents that are not recognized (Spec)                                *)
(***************************************************************************)

\* The items files of run p, CSV files first
ItemsFiles(p) == csvFiles(p) \o productPdfFiles(p)

\* A document that is not recognized: its text has no start marker, it has
\* no text, or its media type is one the Selector refuses
Unrecognized(file) ==
  \/ file.text \in {"unmarked", "empty"}
  \/ getParser(file.mimeType, supplier.name) = "unsupported"

\* The line items of the recognized items files of run p
RecognizedItems(p) ==
  SumSeq([k \in 1..Len(csvFiles(p)) |->
            IF Unrecognized(csvFiles(p)[k]) THEN 0 ELSE CsvYield(csvFiles(p)[k])])
  + SumSeq([k \in 1..Len(productPdfFiles(p)) |->
              IF Unrecognized(productPdfFiles(p)[k]) THEN 0
              ELSE PdfYield(p, productPdfFiles(p)[k])])

\* C23: an items file that is not recognized (no start marker, wrong media
\* type, empty text) yields no item and no total to the run, the run goes
\* on with its other files, and the file is entered in the run's error list.
C23_UnrecognizedIsRecorded ==
  \A p \in Finalized :
    (faults = 0 /\ ~MissingText(p)) =>
      /\ Log(p).itemsProcessed = RecognizedItems(p)
      /\ \A k \in 1..Len(ItemsFiles(p)) :
           LET file == ItemsFiles(p)[k] IN
           Unrecognized(file) =>
             /\ file.id \in Entries(Log(p).errorDetails)
             /\ IsSome(file.invoiceSummary) => Log(p).invoiceAmount # file.invoiceSummary

(***************************************************************************)
(* The Apre token (SpecFn)                                                 *)
(***************************************************************************)

\* The token of item no at price, read after item no - 1
TokenOf(no, price) ==
  /\ call.args.noAndPrice = Token(no, price)
  /\ call.args.previousNo = no - 1

\* C24: for an item that follows the item numbered one less (the first
\* item is numbered 1), parseNoAndPrice recovers the item number and the
\* price from the token, whichever of the one-digit and two-digit splits
\* of the number are plausible.
C24_ConsecutiveItemsRecovered ==
  Returned("parseNoAndPrice") =>
    \A no \in FnNos, price \in FnTokenPrices :
      TokenOf(no, price) =>
        /\ Val(call.result).no = Decimal(no)
        /\ normalizePrice([type |-> "string", chars |-> Val(call.result).price]) = price

(***************************************************************************)
(* The calculation modes compared (SpecFn)                                 *)
(***************************************************************************)

\* What the calculator returns for the arguments of a call when the
\* calculationType is another one
InMode(a, calculationType) ==
  calculateInvoiceAmount(
    a.items,
    [a.config EXCEPT !.roundingConfig =
       Some([calculationType |-> calculationType,
             roundingMode |-> RoundingOrDefault(a.config).roundingMode])],
    a.participationFee, a.participationFeeTaxType, a.shippingFee, a.shippingFeeTaxType)

\* Two items of price 5, one with a commission of 5, and two fees of 5, all
\* without tax, at 10 percent, rounded up
TwoItemsRoundedUp(a) ==
  /\ a.items = << Item(5, 5), Item(5, 0) >>
  /\ a.config.productPriceTaxType = "excluded" /\ a.config.commissionTaxType = "excluded"
  /\ a.config.taxRate = Some(10)
  /\ IsSome(a.config.roundingConfig) /\ Val(a.config.roundingConfig).roundingMode = "ceil"
  /\ a.participationFee = 5 /\ a.participationFeeTaxType = "excluded"
  /\ a.shippingFee = 5 /\ a.shippingFeeTaxType = "excluded"

\* C25: the three calculation modes are not equivalent: for two items of
\* price 5 (one with a commission of 5) and two fees of 5, tax excluded at
\* 10 percent and rounding up, the call returns the amount of its own mode,
\* the amounts of per_item, subtotal and total are pairwise different, and
\* those of per_item and total differ by at least 1.
C25_ModesDiffer ==
  (Returned("calculateInvoiceAmount") /\ TwoItemsRoundedUp(call.args)) =>
    LET perItem == InMode(call.args, "per_item")
        subtotal == InMode(call.args, "subtotal")
        total == InMode(call.args, "total")
    IN
    /\ Val(call.result) = InMode(call.args, Val(call.args.config.roundingConfig).calculationType)
    /\ perItem # subtotal /\ subtotal # total /\ perItem # total
    /\ Abs(perItem - total) >= 1

\* The calculator has returned 30 in per_item mode for an input for which
\* subtotal gives 29 and total gives 28
C25_Witness ==
  /\ Returned("calculateInvoiceAmount") /\ TwoItemsRoundedUp(call.args)
  /\ Val(call.args.config.roundingConfig).calculationType = "per_item"
  /\ Val(call.result) = 30
  /\ InMode(call.args, "subtotal") = 29
  /\ InMode(call.args, "total") = 28

\* C26: for prices, commissions and fees that are whole and not negative
\* and a tax rate that is not negative, the results of the three modes are
\* ordered: per_item <= subtotal <= total when rounding down, and
\* per_item >= subtotal >= total when rounding up.
C26_ModesOrdered ==
  Returned("calculateInvoiceAmount") =>
    LET mode == RoundingOrDefault(call.args.config).roundingMode
        perItem == InMode(call.args, "per_item")
        subtotal == InMode(call.args, "subtotal")
        total == InMode(call.args, "total")
    IN
    /\ mode = "floor" => (perItem <= subtotal /\ subtotal <= total)
    /\ mode = "ceil" => (perItem >= subtotal /\ subtotal >= total)

\* The items of the file at hand that run p has yet to save or count as failed
ItemsAhead(p) ==
  IF Local(p).pc \in {"csvFind", "csvWrite", "pdfFind", "pdfWrite"}
  THEN Len(Local(p).prods) - Local(p).j + 1
  ELSE 0

\* C27: in a run finalized without a run-level exception, itemsProcessed
\* = itemsSuccess + itemsFailed; every extracted item is counted once, as
\* saved or as failed, whatever files failed to parse or were skipped and
\* whatever items failed to be saved.
C27_EveryItemCountedOnce ==
  \A p \in Procs :
    /\ Local(p).results.processed =
         Local(p).results.success + Local(p).results.failed + ItemsAhead(p)
    /\ (p \in Finalized /\ p \in Logs) =>
         Log(p).itemsProcessed = Log(p).itemsSuccess + Log(p).itemsFailed

\* A run has been finalized in which one file could not be parsed, one item
\* failed to be saved and another item was saved
C27_Witness ==
  \E p \in Finalized :
    /\ p \in Logs
    /\ Log(p).itemsFailed = 1 /\ Log(p).itemsSuccess = 1 /\ Log(p).itemsProcessed = 2
    /\ \E k \in 1..Len(Log(p).errorDetails) : Log(p).errorDetails[k] \in Unreadable(p)
    /\ \E k \in 1..Len(Log(p).errorDetails) : Log(p).errorDetails[k] \in ProductIds

\* The total of run r over the line items now persisted for its batch, with
\* the fees in effect for the run
TotalOfPersisted(r) ==
  SystemAmountWith(Log(r), ProductsOfAuction(products, folderOf[r]),
                   ConfigOrUndefined(supplier.parserConfig))

\* C28: after any sequence of import, fee edit, item create, item edit,
\* item delete and delete-by-auction, the persisted systemAmount of a
\* batch's run is the total computed from the line items now persisted for
\* the batch, and amountDifference and hasAmountMismatch agree with it.
C28_SystemAmountFollowsItems ==
  \A r \in Logs :
    (Local(r).pc = "returned" /\ IsSome(Log(r).systemAmount)) =>
      /\ Val(Log(r).systemAmount) = TotalOfPersisted(r)
      /\ IsSome(Log(r).amountDifference) =>
           /\ IsSome(Log(r).invoiceAmount)
           /\ Val(Log(r).amountDifference)
                = Abs(Val(Log(r).invoiceAmount) - Val(Log(r).systemAmount))
           /\ Log(r).hasAmountMismatch = IsMismatch(Val(Log(r).amountDifference))

\* Both runs have answered their requests
BothReturned == \A p \in Procs : Local(p).pc = "returned"

\* C29: when two import runs of one folder interleave their database
\* steps, every extracted item ends up persisted under its productId and
\* neither run records an item failure caused by the writes of the other
\* (with collaborators that do not throw, no item failure at all).
C29_RunsDoNotDisturb ==
  /\ \A p \in Procs : Local(p).results.failed = 0
  /\ BothReturned =>
       \A p \in Procs : \A k \in 1..Len(Local(p).acc) :
         IsSome(products[Local(p).acc[k].productId])

\* The calls of parser.parse that run p has made for its items PDFs
Handed(p) == { Local(p).handed[k] : k \in 1..Len(Local(p).handed) }

\* C30: the import flow and the Selector agree on which supplier needs the
\* text extracted by the client: whenever the flow hands a text to a parser,
\* the parser the Selector returned for the file is the Ore parser, and
\* whenever the Ore parser is selected for an items PDF it is given text,
\* never the bytes of the file.
C30_TextGoesToOre ==
  \A p \in Procs : \A h \in Handed(p) :
    /\ h.input = "text" => h.parser = "OreParser"
    /\ h.parser = "OreParser" => h.input = "text"

====
